---- MODULE Spec2Model ----
(***************************************************************************)
(* Model of forge-backend.  The render job lifecycle:                      *)
(*   app/routes/export_routes.py   start_render, get_render_status_endpoint,*)
(*                                 cancel_render_endpoint                   *)
(*   app/tasks/render_task.py      render_progress, render_processes,       *)
(*                                 update_render_progress, cancel_render,   *)
(*                                 render_video_task                        *)
(*   app/services/ffmpeg_service.py      FFmpegService.render_video         *)
(*   app/services/cloudinary_service.py  ProgressTrackingStream.read        *)
(*   app/db/project_repo.py        ProjectRepo                              *)
(*                                                                         *)
(* Execution model.  The project table lives in the database and is shared *)
(* by every server process.  render_progress and render_processes are      *)
(* module-level dicts of render_task.py: there is one copy per server      *)
(* process.  render_video_task is an `async def` without a single await    *)
(* (render_video and upload_video_stream are blocking calls), so it        *)
(* occupies the event loop of the server process that runs it from its     *)
(* first to its last line: that process handles no request meanwhile, the  *)
(* other server processes do.  Request handlers contain no await between   *)
(* their database read and their last write, and are one action each.      *)
(*                                                                         *)
(* The configuration tree and its edits:                                   *)
(*   app/animation_presets.py              the preset registry             *)
(*   app/services/validation_service.py    ValidationService               *)
(*   app/services/config_update_service.py ConfigUpdateService             *)
(*   app/services/config_service.py        the tree of a new project       *)
(*   app/routes/refine_routes.py           chat_edit                       *)
(*   app/services/schema_service.py        SchemaService._merge_segments   *)
(* A dict is a function from its keys to its values, a list a sequence.    *)
(* Times are kept in tenths of a second (0.8 s is 8, 2.0 s is 20).         *)
(***************************************************************************)
EXTENDS Integers, Sequences, FiniteSets, TLC

\* ---------------------------------------------------------------- bounds
MaxJobs == 2           \* render_video_task invocations alive at one time
MaxTime == 3           \* largest time= value of an encoder status line (s)
MaxChunk == 2          \* largest number of units one stream read returns
ExtraBytes == 1        \* units read again after a seek of the wrapped stream
MaxCalls == 2          \* calls of apply_edit on one tree
MaxHighlights == 1     \* longest list of highlights of a tree
MaxCaptions == 2       \* longest prior caption list
MaxSegments == 3       \* most generated segments
MaxWords == 6          \* longest word stream of a transcription
MaxSpecial == 2        \* most words of a stream that are not plain
MaxBatch == 3          \* most instructions of a watched LLM answer

\* config["meta"]["duration"] of the projects (s)
MetaDuration == 2
\* file_size = os.path.getsize(temp_path), in read units
FileSize == 2

Workers == {"w1", "w2"}       \* server processes
Projects == {"p1", "p2"}      \* project ids
JobIds == 1..MaxJobs
Times == 0..MaxTime
MaxBytes == FileSize + ExtraBytes

Min(a, b) == IF a <= b THEN a ELSE b

\* ----------------------------------------------------------------- state
VARIABLES
  status,            \* project.status column, per project id
  export_url,        \* project.export_url column, per project id
  error,             \* project.error column, per project id
  render_progress,   \* render_task.render_progress, per server process
  render_processes,  \* render_task.render_processes, per server process
  jobs,              \* the frames of the render_video_task invocations
  proc,              \* the encoder process each invocation spawned
  files,             \* the temporary files that exist, <<job, kind>>
  observed,          \* last progress the status endpoint answered, per id
  cancelled,         \* per id: the last write of status was a cancel's
  reply,             \* the answer to the last cancel request that is watched
  schema,            \* project.schema column, per project id
  chat,              \* the last ChatEditResponse, and whether the row was written
  config,            \* the dict object a caller hands to apply_edit
  before,            \* the content of that object when it was handed over
  returned,          \* what the call gave back: the object, or an exception
  edit,              \* the instruction last validated or applied
  verdict,           \* what validate_single_edit returned for it
  calls,             \* the number of calls of apply_edit so far
  old,               \* the prior caption list given to _merge_segments
  new,               \* the generated segments given to _merge_segments
  merged,            \* whether _merge_segments was called, the list returned
  words,             \* the word stream given to _group_words_into_captions
  grouped,           \* whether it was called, and the captions it returned
  command,           \* the configuration start_render handed to the render
                     \* job, and the encoder command compiled from it
  batch              \* the edits of the last LLM answer that is watched, and
                     \* the applied_edits and rejected_edits of the response

\* the variables of the parts of the program that are not the render jobs
outside == <<schema, chat, config, before, returned, edit, verdict, calls,
             old, new, merged, words, grouped, command, batch>>

\* those of them that start_render leaves alone
kept == <<schema, chat, config, before, returned, edit, verdict, calls,
          old, new, merged, words, grouped, batch>>

vars == <<status, export_url, error, render_progress, render_processes,
          jobs, proc, files, observed, cancelled, reply, outside>>

\* a key that is not in the dict
NoEntry == [progress |-> -1, phase |-> "absent"]
Entry(progress, phase) == [progress |-> progress, phase |-> phase]

\* the status endpoint has answered no progress value since the last start
NoProgress == -1

Statuses == {"ready", "rendering", "exported", "failed"}
Phases == {"rendering", "uploading", "completed"}
Pcs == {"queued", "encoding", "uploading", "uploaded", "url_stored",
        "except", "failed_set", "finally"}
Procs == {"none", "running", "exit0", "exit1", "killed"}
Errors == {"none", "encode", "upload"}
Urls == {"none", "url"}

\* no cancel request has been answered
NoReply == [project |-> "none", code |-> 0]

\* a slot that holds no invocation
NoJob == [project |-> "none", worker |-> "none", pc |-> "none", bytes |-> 0,
          err |-> "none"]
Job(p, w) == [project |-> p, worker |-> w, pc |-> "queued", bytes |-> 0,
              err |-> "none"]

\* ------------------------------------------------ the configuration tree
\* animation_presets.py
ENTRY_ANIMATIONS ==
  <<"fade_in", "pop_in", "slide_up", "slide_down", "slide_left",
    "slide_right", "slide_up_fade", "slide_down_fade", "slide_left_fade",
    "slide_right_fade", "scale_up", "scale_down", "scale_up_fade",
    "bounce_in">>
EXIT_ANIMATIONS ==
  <<"fade_out", "pop_out", "slide_up_out", "slide_down_out",
    "slide_left_out", "slide_right_out", "slide_up_fade_out",
    "slide_down_fade_out", "slide_left_fade_out", "slide_right_fade_out",
    "scale_down_out", "scale_down_fade_out">>
HIGHLIGHT_ANIMATIONS ==
  <<"none", "pulse", "pulse_fade", "scale_up", "bounce_soft",
    "fade_emphasis", "color_emphasis", "scale_color_pulse">>
VIDEO_ANIMATIONS == <<"none", "fade_in", "fade_out", "fade_in_out">>

ALL_PRESETS ==
  [entry |-> ENTRY_ANIMATIONS, exit |-> EXIT_ANIMATIONS,
   highlight |-> HIGHLIGHT_ANIMATIONS, video |-> VIDEO_ANIMATIONS]

\* the elements of a list
Range(list) == {list[i] : i \in DOMAIN list}

\* is_valid_preset: ALL_PRESETS.get(animation_type, []) holds preset_id
is_valid_preset(animation_type, preset_id) ==
  /\ animation_type \in DOMAIN ALL_PRESETS
  /\ preset_id \in Range(ALL_PRESETS[animation_type])

Max(a, b) == IF a >= b THEN a ELSE b

\* d.get(k): the None of a missing key is the string "None"
None == "None"
Get(d, k) == IF k \in DOMAIN d THEN d[k] ELSE None

\* dict.get(key, default)
GetOr(d, k, default) == IF k \in DOMAIN d THEN d[k] ELSE default

\* the sequences over S of the lengths in 0..n
SeqsUpTo(S, n) == UNION {[1..k -> S] : k \in 0..n}

\* d[k] = v
DictSet(d, k, v) == [x \in DOMAIN d \cup {k} |-> IF x = k THEN v ELSE d[x]]
\* del d[k]
DictDel(d, k) == [x \in DOMAIN d \ {k} |-> d[x]]
\* for key, value in properties.items(): d[key] = value
DictUpdate(d, properties) ==
  [x \in DOMAIN d \cup DOMAIN properties |->
     IF x \in DOMAIN properties THEN properties[x] ELSE d[x]]

\* the defaults of _update_video_fade, as in generate_edit_config
FadeInDuration == 8
FadeOutDuration == 20
Fade(start, duration) == [start |-> start, duration |-> duration]
DefaultFadeIn == Fade(0, FadeInDuration)
DefaultFadeOut(video_duration) ==
  Fade(Max(0, video_duration - FadeOutDuration), FadeOutDuration)

\* the captions of a new project: the LLM grouped the words into two
\* captions, which get the ids cap_001 and cap_002
Captions == <<[id |-> "cap_001", text |-> "hello there"],
              [id |-> "cap_002", text |-> "good bye"]>>

\* ConfigService.generate_edit_config for a video of the given duration: the
\* parts of the tree that the edit instructions read or write
EditConfig(duration) ==
  [meta |-> [duration |-> duration],
   tracks |->
     [video |->
        [animation |-> [presetId |-> "fade_in_out",
                        fadeIn |-> DefaultFadeIn,
                        fadeOut |-> DefaultFadeOut(duration)]],
      text |->
        [globalStyle |->
           [fontFamily |-> "Inter", fontSize |-> 14, fontWeight |-> 700,
            color |-> "#ffffff", background |-> "rgba(0,0,0,0.45)",
            padding |-> <<12, 16>>, borderRadius |-> 12,
            position |-> [anchor |-> "bottom_center", offsetY |-> -50]],
         highlightStyle |->
           [color |-> "#ffd166", scale |-> 103, fontWeight |-> 800],
         animation |->
           [entry |-> [presetId |-> "slide_up_fade", duration |-> 2],
            exit |-> [presetId |-> "fade_out", duration |-> 2],
            highlight |-> [presetId |-> "none", duration |-> 4]],
         captions |-> Captions,
         highlights |-> <<>>]]]

\* the durations of the videos of the projects
Durations == {10, 30}

\* no caller holds a tree
NoTree == [meta |-> [duration |-> 0]]

\* nothing has been asked of the edit endpoint or of the mutator
NoChat == [project |-> "none", status |-> "none", applied |-> 0,
           rejected |-> 0, written |-> FALSE]
NoEdit == [action |-> "none"]
NoCommand == [project |-> "none"]
NoBatch == [edits |-> <<>>, applied_edits |-> <<>>, rejected_edits |-> <<>>]
NoVerdict == [ok |-> FALSE, kind |-> "none", subject |-> "none",
              available |-> <<>>]

TypeOK ==
  /\ status \in [Projects -> Statuses]
  /\ export_url \in [Projects -> Urls]
  /\ error \in [Projects -> Errors]
  /\ \A w \in Workers : \A p \in Projects :
       /\ render_progress[w][p] = NoEntry
            \/ (render_progress[w][p].phase \in Phases
                /\ render_progress[w][p].progress \in 0..100)
       /\ render_processes[w][p] \in 0..MaxJobs
  /\ \A j \in JobIds :
       /\ jobs[j] = NoJob
            \/ (/\ jobs[j].project \in Projects
                /\ jobs[j].worker \in Workers
                /\ jobs[j].pc \in Pcs
                /\ jobs[j].bytes \in 0..MaxBytes
                /\ jobs[j].err \in Errors)
       /\ proc[j] \in Procs
  /\ files \subseteq (JobIds \X {"mp4", "ass"})
  /\ observed \in [Projects -> -1..100]
  /\ cancelled \in [Projects -> BOOLEAN]
  /\ reply \in {NoReply} \cup [project : Projects, code : {200, 400}]

\* no render is going on or queued, and the project rows hold st and url
NoRender(st, url) ==
  /\ status = [p \in Projects |-> st]
  /\ export_url = [p \in Projects |-> url]
  /\ error = [p \in Projects |-> "none"]
  /\ render_progress = [w \in Workers |-> [p \in Projects |-> NoEntry]]
  /\ render_processes = [w \in Workers |-> [p \in Projects |-> 0]]
  /\ jobs = [j \in JobIds |-> NoJob]
  /\ proc = [j \in JobIds |-> "none"]
  /\ files = {}
  /\ observed = [p \in Projects |-> NoProgress]
  /\ cancelled = [p \in Projects |-> FALSE]
  /\ reply = NoReply

\* no render has been asked for
RenderInit == NoRender("ready", "none")

\* the projects hold the tree of a new project; no edit has been asked for
EditIdle ==
  /\ schema = [p \in Projects |-> EditConfig(30)]
  /\ chat = NoChat
  /\ config = NoTree
  /\ before = NoTree
  /\ returned = "none"
  /\ edit = NoEdit
  /\ verdict = NoVerdict
  /\ calls = 0

\* no merge has been asked for
MergeIdle ==
  /\ old = <<>>
  /\ new = <<>>
  /\ merged = [called |-> FALSE, list |-> <<>>]

\* no word stream has been grouped
GroupIdle ==
  /\ words = <<>>
  /\ grouped = [called |-> FALSE, captions |-> <<>>]

\* no configuration has been handed to a render job
CompileIdle == command = NoCommand

\* no LLM answer is watched
BatchIdle == batch = NoBatch

Init ==
  RenderInit /\ EditIdle /\ MergeIdle /\ GroupIdle /\ CompileIdle /\ BatchIdle

\* ------------------------------------------------------------- helpers
\* the invocation in slot j has entered its try block and not yet returned
Live(j) == jobs[j] # NoJob /\ jobs[j].pc # "queued"

\* the event loop of server process w is not inside a render_video_task
LoopFree(w) == \A j \in JobIds : jobs[j].worker = w => ~Live(j)

\* update_render_progress(project_id, progress, phase) in server process w
update_render_progress(w, p, progress, phase) ==
  [render_progress EXCEPT ![w][p] = Entry(progress, phase)]

\* get_render_status(project_id) in server process w
get_render_status(w, p) ==
  IF render_progress[w][p] # NoEntry THEN render_progress[w][p]
  ELSE Entry(0, "rendering")

\* the encoder progress of one status line: min(100, current_time/duration*100)
EncodeProgress(t) == Min(100, (t * 100) \div MetaDuration)

\* mutant of RenderTotal: the encoder progress is not scaled to 0-80
RenderTotalUnscaled(progress) == progress

\* render_progress_callback: total_progress = progress * 0.8 (whole percent)
RenderTotal(progress) == (progress * 8) \div 10

\* ProgressTrackingStream.read: min(bytes_uploaded/total_size*100, 100)
ReadProgress(bytes) == Min((bytes * 100) \div FileSize, 100)

\* upload_progress_callback: total_progress = 80 + progress * 0.2
UploadTotal(progress) == 80 + (progress * 2) \div 10

\* ------------------------------------------------------ request handlers
\* start_render, handled by server process w: the task is queued behind the
\* response; the status column is not written here
StartRender(w, p) ==
  /\ LoopFree(w)
  /\ IF status[p] = "rendering"
     THEN UNCHANGED <<jobs, observed>>                 \* 400
     ELSE /\ \E j \in JobIds :
               /\ jobs[j] = NoJob
               /\ \A k \in JobIds : k < j => jobs[k] # NoJob
               /\ jobs' = [jobs EXCEPT ![j] = Job(p, w)]
          /\ observed' = [observed EXCEPT ![p] = NoProgress]
  /\ UNCHANGED <<status, export_url, error, render_progress,
                 render_processes, proc, files, cancelled>>
  /\ UNCHANGED <<reply, kept>>

\* the progress field of the answer of get_render_status_endpoint
StatusAnswer(w, p) ==
  IF status[p] = "rendering" THEN get_render_status(w, p).progress
  ELSE IF status[p] = "exported" THEN 100
  ELSE NoProgress

\* get_render_status_endpoint, handled by server process w
GetRenderStatus(w, p) ==
  /\ LoopFree(w)
  /\ observed' = [observed EXCEPT ![p] = StatusAnswer(w, p)]
  /\ UNCHANGED <<status, export_url, error, render_progress,
                 render_processes, jobs, proc, files, cancelled>>
  /\ UNCHANGED <<reply, outside>>

\* cancel_render(project_id) in server process w: the process table after it
CancelProcesses(w, p) == [render_processes EXCEPT ![w][p] = 0]

\* cancel_render: process.terminate(); process.wait() on the registered handle
CancelProc(w, p) ==
  [j \in JobIds |->
     IF render_processes[w][p] = j /\ proc[j] = "running" THEN "killed"
     ELSE proc[j]]

\* cancel_render: the progress table after it
CancelProgress(w, p) == [render_progress EXCEPT ![w][p] = NoEntry]

\* mutant of CancelRender: every project is set back to "ready"
CancelRenderEvery(w, p) ==
  /\ LoopFree(w)
  /\ IF status[p] # "rendering"
     THEN UNCHANGED <<status, render_progress, render_processes, proc,
                      cancelled>>
     ELSE /\ proc' = CancelProc(w, p)
          /\ render_processes' = CancelProcesses(w, p)
          /\ render_progress' = CancelProgress(w, p)
          /\ status' = [q \in Projects |-> "ready"]
          /\ cancelled' = [cancelled EXCEPT ![p] = TRUE]
  /\ UNCHANGED <<export_url, error, jobs, files, observed>>
  /\ UNCHANGED outside

\* mutant of CancelRender: the status column is not looked at
CancelRenderUnchecked(w, p) ==
  /\ LoopFree(w)
  /\ proc' = CancelProc(w, p)
  /\ render_processes' = CancelProcesses(w, p)
  /\ render_progress' = CancelProgress(w, p)
  /\ status' = [status EXCEPT ![p] = "ready"]
  /\ cancelled' = [cancelled EXCEPT ![p] = TRUE]
  /\ UNCHANGED <<export_url, error, jobs, files, observed>>
  /\ UNCHANGED outside

\* cancel_render_endpoint, handled by server process w
CancelRender(w, p) ==
  /\ LoopFree(w)
  /\ IF status[p] # "rendering"
     THEN UNCHANGED <<status, render_progress, render_processes, proc,
                      cancelled>>                      \* 400
     ELSE /\ proc' = CancelProc(w, p)
          /\ render_processes' = CancelProcesses(w, p)
          /\ render_progress' = CancelProgress(w, p)
          /\ status' = [status EXCEPT ![p] = "ready"]
          /\ cancelled' = [cancelled EXCEPT ![p] = TRUE]
  /\ UNCHANGED <<export_url, error, jobs, files, observed>>
  /\ UNCHANGED outside

\* the status code cancel_render_endpoint answers with (lines 187-200)
CancelAnswer(p) == IF status[p] # "rendering" THEN 400 ELSE 200

\* a cancel request together with the answer the client receives
CancelRequest(w, p) ==
  /\ CancelRender(w, p)
  /\ reply' = [project |-> p, code |-> CancelAnswer(p)]

\* --------------------------------------------------- render_video_task
\* lines 73-86 and render_video up to Popen (ffmpeg_service.py 361-388): the
\* try block is entered, progress is initialised, the status column is set
\* to "rendering", the output file is created with mkstemp, the subtitle
\* file is written when the configuration has captions, and the encoder
\* process is spawned.  Its handle stays local to render_video: nothing
\* stores it in render_processes.
TaskBegin(j, captions) ==
  /\ jobs[j] # NoJob /\ jobs[j].pc = "queued"
  /\ LoopFree(jobs[j].worker)
  /\ render_progress' =
       update_render_progress(jobs[j].worker, jobs[j].project, 0, "rendering")
  /\ status' = [status EXCEPT ![jobs[j].project] = "rendering"]
  /\ cancelled' = [cancelled EXCEPT ![jobs[j].project] = FALSE]
  /\ files' = files \cup {<<j, "mp4">>}
                    \cup (IF captions THEN {<<j, "ass">>} ELSE {})
  /\ proc' = [proc EXCEPT ![j] = "running"]
  /\ jobs' = [jobs EXCEPT ![j].pc = "encoding"]
  /\ UNCHANGED <<export_url, error, render_processes, observed>>
  /\ UNCHANGED <<reply, outside>>

\* one status line with time=t read from the encoder's stderr (lines 391-400)
StderrLine(j, t) ==
  /\ jobs[j] # NoJob /\ jobs[j].pc = "encoding"
  /\ proc[j] = "running"
  /\ MetaDuration > 0
  /\ render_progress' =
       update_render_progress(jobs[j].worker, jobs[j].project,
                              RenderTotal(EncodeProgress(t)), "rendering")
  /\ UNCHANGED <<status, export_url, error, render_processes, jobs, proc,
                 files, observed, cancelled>>
  /\ UNCHANGED <<reply, outside>>

\* the files render_video's finally block leaves: the subtitle file is removed
RenderVideoFiles(j) == files \ {<<j, "ass">>}

\* mutant of EncoderExit: the return code is not looked at
EncoderExitAnyCode(j, ok) ==
  /\ jobs[j] # NoJob /\ jobs[j].pc = "encoding"
  /\ proc[j] \in {"running", "killed"}
  /\ proc' = [proc EXCEPT ![j] = IF @ = "killed" THEN @
                                 ELSE IF ok THEN "exit0" ELSE "exit1"]
  /\ files' = files \ {<<j, "ass">>}
  /\ render_progress' =
       update_render_progress(jobs[j].worker, jobs[j].project, 80,
                              "rendering")
  /\ jobs' = [jobs EXCEPT ![j].pc = "uploading"]
  /\ UNCHANGED <<status, export_url, error, render_processes, observed,
                 cancelled>>
  /\ UNCHANGED <<reply, outside>>

\* the encoder process ends, with return code 0 (ok) or not, or has been
\* terminated; render_video (lines 402-422): process.wait(), the return code
\* decides between progress_callback(100) and the exception, the finally
\* block removes the subtitle file.  On success the task goes on to line 119
\* and opens the upload.
EncoderExit(j, ok) ==
  /\ jobs[j] # NoJob /\ jobs[j].pc = "encoding"
  /\ proc[j] \in {"running", "killed"}
  /\ proc' = [proc EXCEPT ![j] = IF @ = "killed" THEN @
                                 ELSE IF ok THEN "exit0" ELSE "exit1"]
  /\ files' = RenderVideoFiles(j)
  /\ IF ok /\ proc[j] = "running"
     THEN /\ render_progress' =
               update_render_progress(jobs[j].worker, jobs[j].project,
                                      RenderTotal(100), "rendering")
          /\ jobs' = [jobs EXCEPT ![j].pc = "uploading"]
     ELSE /\ jobs' = [jobs EXCEPT ![j].pc = "except", ![j].err = "encode"]
          /\ UNCHANGED render_progress
  /\ UNCHANGED <<status, export_url, error, render_processes, observed,
                 cancelled>>
  /\ UNCHANGED <<reply, outside>>

\* ProgressTrackingStream.read returning n units during the upload
UploadRead(j, n) ==
  /\ jobs[j] # NoJob /\ jobs[j].pc = "uploading"
  /\ jobs[j].bytes + n <= MaxBytes
  /\ jobs' = [jobs EXCEPT ![j].bytes = @ + n]
  /\ render_progress' =
       IF FileSize > 0
       THEN update_render_progress(jobs[j].worker, jobs[j].project,
              UploadTotal(ReadProgress(jobs[j].bytes + n)), "uploading")
       ELSE render_progress
  /\ UNCHANGED <<status, export_url, error, render_processes, proc, files,
                 observed, cancelled>>
  /\ UNCHANGED <<reply, outside>>

\* upload_video_stream returns the URL
UploadReturn(j) ==
  /\ jobs[j] # NoJob /\ jobs[j].pc = "uploading"
  /\ jobs' = [jobs EXCEPT ![j].pc = "uploaded"]
  /\ UNCHANGED <<status, export_url, error, render_progress,
                 render_processes, proc, files, observed, cancelled>>
  /\ UNCHANGED <<reply, outside>>

\* upload_video_stream raises "Cloudinary upload failed"
UploadRaise(j) ==
  /\ jobs[j] # NoJob /\ jobs[j].pc = "uploading"
  /\ jobs' = [jobs EXCEPT ![j].pc = "except", ![j].err = "upload"]
  /\ UNCHANGED <<status, export_url, error, render_progress,
                 render_processes, proc, files, observed, cancelled>>
  /\ UNCHANGED <<reply, outside>>

\* mutant of StoreExportUrl: the URL is not stored before the status is set
StoreExportUrlSkipped(j) ==
  /\ jobs[j] # NoJob /\ jobs[j].pc = "uploaded"
  /\ jobs' = [jobs EXCEPT ![j].pc = "url_stored"]
  /\ UNCHANGED <<status, export_url, error, render_progress,
                 render_processes, proc, files, observed, cancelled>>
  /\ UNCHANGED <<reply, outside>>

\* line 131: ProjectRepo.update_export_url
StoreExportUrl(j) ==
  /\ jobs[j] # NoJob /\ jobs[j].pc = "uploaded"
  /\ export_url' = [export_url EXCEPT ![jobs[j].project] = "url"]
  /\ jobs' = [jobs EXCEPT ![j].pc = "url_stored"]
  /\ UNCHANGED <<status, error, render_progress, render_processes, proc,
                 files, observed, cancelled>>
  /\ UNCHANGED <<reply, outside>>

\* lines 132-134: ProjectRepo.update_status("exported"), progress 100
SetExported(j) ==
  /\ jobs[j] # NoJob /\ jobs[j].pc = "url_stored"
  /\ status' = [status EXCEPT ![jobs[j].project] = "exported"]
  /\ render_progress' =
       update_render_progress(jobs[j].worker, jobs[j].project, 100,
                              "completed")
  /\ cancelled' = [cancelled EXCEPT ![jobs[j].project] = FALSE]
  /\ jobs' = [jobs EXCEPT ![j].pc = "finally"]
  /\ UNCHANGED <<export_url, error, render_processes, proc, files,
                 observed>>
  /\ UNCHANGED <<reply, outside>>

\* mutant of SetFailed: the except block does not write the status
SetFailedSkipped(j) ==
  /\ jobs[j] # NoJob /\ jobs[j].pc = "except"
  /\ jobs' = [jobs EXCEPT ![j].pc = "failed_set"]
  /\ UNCHANGED <<status, export_url, error, render_progress,
                 render_processes, proc, files, observed, cancelled>>
  /\ UNCHANGED <<reply, outside>>

\* lines 138-147: the except block; `process` is still None here, so nothing
\* is terminated; ProjectRepo.update_status("failed")
SetFailed(j) ==
  /\ jobs[j] # NoJob /\ jobs[j].pc = "except"
  /\ status' = [status EXCEPT ![jobs[j].project] = "failed"]
  /\ cancelled' = [cancelled EXCEPT ![jobs[j].project] = FALSE]
  /\ jobs' = [jobs EXCEPT ![j].pc = "failed_set"]
  /\ UNCHANGED <<export_url, error, render_progress, render_processes, proc,
                 files, observed>>
  /\ UNCHANGED <<reply, outside>>

\* lines 148-150: ProjectRepo.update_error(str(e)), then the re-raise
StoreError(j) ==
  /\ jobs[j] # NoJob /\ jobs[j].pc = "failed_set"
  /\ error' = [error EXCEPT ![jobs[j].project] = jobs[j].err]
  /\ jobs' = [jobs EXCEPT ![j].pc = "finally"]
  /\ UNCHANGED <<status, export_url, render_progress, render_processes,
                 proc, files, observed, cancelled>>
  /\ UNCHANGED <<reply, outside>>

\* mutant of FinallyFiles: the output file is not removed
FinallyFilesLeak(j) == files

\* the files the finally block leaves: temp_path is removed; filter_file is
\* None in this task
FinallyFiles(j) == files \ {<<j, "mp4">>}

\* the progress table the finally block leaves
FinallyProgress(w, p) == [render_progress EXCEPT ![w][p] = NoEntry]

\* lines 152-171: the finally block, after which the invocation is over
TaskFinally(j) ==
  /\ jobs[j] # NoJob /\ jobs[j].pc = "finally"
  /\ files' = FinallyFiles(j)
  /\ render_progress' = FinallyProgress(jobs[j].worker, jobs[j].project)
  /\ render_processes' =
       [render_processes EXCEPT ![jobs[j].worker][jobs[j].project] = 0]
  /\ jobs' = [jobs EXCEPT ![j] = NoJob]
  /\ proc' = [proc EXCEPT ![j] = IF @ = "running" THEN @ ELSE "none"]
  /\ UNCHANGED <<status, export_url, error, observed, cancelled>>
  /\ UNCHANGED <<reply, outside>>

\* ------------------------------------------------------ ValidationService
ALLOWED_ACTIONS ==
  <<"update_text_animation", "update_video_animation", "update_text_style",
    "update_highlight_style", "update_highlights", "update_video_fade",
    "update_text_position">>
ALLOWED_GLOBAL_STYLE_PROPS ==
  <<"fontFamily", "fontSize", "fontWeight", "color", "background",
    "padding", "borderRadius">>
ALLOWED_HIGHLIGHT_STYLE_PROPS == <<"color", "scale", "fontWeight">>
ALLOWED_POSITION_PROPS == <<"anchor", "offsetY">>

\* (True, "")
Valid == [ok |-> TRUE, kind |-> "", subject |-> "", available |-> <<>>]
\* (False, message): the kind of message, the value it names and the list
\* it joins after "Available:" or "Allowed:"
Invalid(kind, subject, available) ==
  [ok |-> FALSE, kind |-> kind, subject |-> subject, available |-> available]

\* mutant of validate_animation_preset: the preset is not looked up
validate_animation_type_only(animation_type, preset_id) ==
  IF animation_type \notin {"entry", "exit", "highlight", "video"}
  THEN Invalid("Invalid animation type", animation_type, <<>>)
  ELSE Valid

\* validate_animation_preset(animation_type, preset_id)
validate_animation_preset(animation_type, preset_id) ==
  IF animation_type \notin {"entry", "exit", "highlight", "video"}
  THEN Invalid("Invalid animation type", animation_type, <<>>)
  ELSE IF ~is_valid_preset(animation_type, preset_id)
  THEN Invalid("Invalid animation preset", animation_type,
               ALL_PRESETS[animation_type])
  ELSE Valid

\* validate_edit_action(action)
validate_edit_action(action) ==
  IF action \notin Range(ALLOWED_ACTIONS)
  THEN Invalid("Action is not allowed", action, <<>>)
  ELSE Valid

\* the first property of the dict that is not in the allowed list
FirstNotAllowed(properties, allowed) ==
  CHOOSE prop \in DOMAIN properties : prop \notin Range(allowed)

\* validate_style_properties(target, properties)
validate_style_properties(target, properties) ==
  IF target \notin {"globalStyle", "highlightStyle"}
  THEN Invalid("Invalid style target", target, <<>>)
  ELSE LET allowed == IF target = "globalStyle"
                      THEN ALLOWED_GLOBAL_STYLE_PROPS
                      ELSE ALLOWED_HIGHLIGHT_STYLE_PROPS
       IN IF DOMAIN properties \subseteq Range(allowed) THEN Valid
          ELSE Invalid("Property is not allowed",
                       FirstNotAllowed(properties, allowed), allowed)

\* validate_position_properties(properties)
validate_position_properties(properties) ==
  IF DOMAIN properties \subseteq Range(ALLOWED_POSITION_PROPS) THEN Valid
  ELSE Invalid("Property is not allowed",
               FirstNotAllowed(properties, ALLOWED_POSITION_PROPS),
               ALLOWED_POSITION_PROPS)

\* edit.get("properties", {})
Properties(e) == IF "properties" \in DOMAIN e THEN e.properties ELSE <<>>
\* edit.get("highlights", [])
Highlights(e) == IF "highlights" \in DOMAIN e THEN e.highlights ELSE <<>>

\* mutant of validate_single_edit: the preset is looked up in every category
validate_any_category(e) ==
  IF e.action \in {"update_text_animation", "update_video_animation"}
  THEN IF \E c \in DOMAIN ALL_PRESETS :
            is_valid_preset(c, Get(e, "preset_id"))
       THEN Valid
       ELSE Invalid("Invalid animation preset", Get(e, "target"), <<>>)
  ELSE Valid

\* validate_single_edit(edit).  The instructions of the model carry a
\* boolean for "enabled" and numbers for "duration" and "start".
validate_single_edit(e) ==
  LET action == Get(e, "action") IN
  IF ~validate_edit_action(action).ok THEN validate_edit_action(action)
  ELSE IF action = "update_text_animation"
  THEN IF Get(e, "target") \notin {"entry", "exit", "highlight"}
       THEN Invalid("Invalid text animation target", Get(e, "target"), <<>>)
       ELSE validate_animation_preset(Get(e, "target"), Get(e, "preset_id"))
  ELSE IF action = "update_video_animation"
  THEN validate_animation_preset("video", Get(e, "preset_id"))
  ELSE IF action = "update_text_style"
  THEN validate_style_properties(Get(e, "target"), Properties(e))
  ELSE IF action = "update_highlight_style"
  THEN validate_style_properties("highlightStyle", Properties(e))
  ELSE IF action = "update_text_position"
  THEN validate_position_properties(Properties(e))
  ELSE IF action = "update_video_fade"
  THEN IF Get(e, "fade_type") \notin {"fadeIn", "fadeOut"}
       THEN Invalid("Invalid fade type", Get(e, "fade_type"), <<>>)
       ELSE IF "enabled" \in DOMAIN e /\ e.enabled \notin BOOLEAN
       THEN Invalid("enabled must be a boolean", "enabled", <<>>)
       ELSE IF "duration" \in DOMAIN e /\ e.duration <= 0
       THEN Invalid("duration must be a positive number", "duration", <<>>)
       ELSE IF "start" \in DOMAIN e /\ e.start < 0
       THEN Invalid("start must be a non-negative number", "start", <<>>)
       ELSE Valid
  ELSE IF action = "update_highlights"
  THEN IF \E i \in DOMAIN Highlights(e) :
            ~({"captionId", "wordStartIndex", "wordEndIndex"}
                \subseteq DOMAIN Highlights(e)[i])
       THEN Invalid("Each highlight must have all keys", "highlights", <<>>)
       ELSE Valid
  ELSE Valid

\* --------------------------------------------------- ConfigUpdateService
\* a subscript that finds no key raises KeyError before anything is written
Raises(cfg, e) ==
  LET action == Get(e, "action") IN
  \/ /\ action = "update_text_animation"
     /\ Get(e, "target") \notin DOMAIN cfg.tracks.text.animation
  \/ /\ action = "update_text_style"
     /\ DOMAIN Properties(e) # {}
     /\ Get(e, "target") \notin DOMAIN cfg.tracks.text
  \/ /\ action = "update_highlights"
     /\ Get(e, "operation") = "remove"
     /\ \E i \in DOMAIN Highlights(e) :
          "captionId" \notin DOMAIN Highlights(e)[i]

\* mutant of update_text_animation: the preset is written in every role
update_text_animation_all_roles(cfg, e) ==
  LET animation == cfg.tracks.text.animation
      preset == [r \in DOMAIN animation |->
                   DictSet(animation[r], "presetId", Get(e, "preset_id"))]
      timed == IF "duration" \in DOMAIN e
               THEN DictSet(preset, e.target,
                            DictSet(preset[e.target], "duration", e.duration))
               ELSE preset
  IN [cfg EXCEPT !.tracks.text.animation = timed]

\* _update_text_animation
update_text_animation(cfg, e) ==
  LET target == e.target
      animation == cfg.tracks.text.animation
      preset == DictSet(animation[target], "presetId", Get(e, "preset_id"))
      timed == IF "duration" \in DOMAIN e
               THEN DictSet(preset, "duration", e.duration)
               ELSE preset
  IN [cfg EXCEPT !.tracks.text.animation = DictSet(animation, target, timed)]

\* _update_video_animation
update_video_animation(cfg, e) ==
  [cfg EXCEPT !.tracks.video.animation =
     DictSet(@, "presetId", Get(e, "preset_id"))]

\* _update_text_style
update_text_style(cfg, e) ==
  IF DOMAIN Properties(e) = {} THEN cfg
  ELSE [cfg EXCEPT !.tracks.text =
          DictSet(@, e.target, DictUpdate(@[e.target], Properties(e)))]

\* _update_highlight_style
update_highlight_style(cfg, e) ==
  [cfg EXCEPT !.tracks.text.highlightStyle = DictUpdate(@, Properties(e))]

\* _update_text_position
update_text_position(cfg, e) ==
  [cfg EXCEPT !.tracks.text.globalStyle.position =
     DictUpdate(@, Properties(e))]

\* mutant of update_video_fade: a fade that is switched on again gets the
\* values of the other default
update_video_fade_wrong_default(cfg, e) ==
  LET fade_type == Get(e, "fade_type")
      animation == cfg.tracks.video.animation
  IN IF "enabled" \in DOMAIN e /\ ~e.enabled
     THEN [cfg EXCEPT !.tracks.video.animation = DictDel(animation, fade_type)]
     ELSE IF "enabled" \in DOMAIN e /\ fade_type \notin DOMAIN animation
     THEN [cfg EXCEPT !.tracks.video.animation =
             DictSet(animation, fade_type,
                     IF fade_type = "fadeIn"
                     THEN DefaultFadeOut(cfg.meta.duration)
                     ELSE DefaultFadeIn)]
     ELSE cfg

\* _update_video_fade
update_video_fade(cfg, e) ==
  LET fade_type == Get(e, "fade_type")
      animation == cfg.tracks.video.animation
      enabled == IF "enabled" \in DOMAIN e /\ fade_type \notin DOMAIN animation
                 THEN DictSet(animation, fade_type,
                              IF fade_type = "fadeIn" THEN DefaultFadeIn
                              ELSE DefaultFadeOut(cfg.meta.duration))
                 ELSE animation
      timed == IF "duration" \in DOMAIN e /\ fade_type \in DOMAIN enabled
               THEN DictSet(enabled, fade_type,
                            DictSet(enabled[fade_type], "duration",
                                    e.duration))
               ELSE enabled
      started == IF "start" \in DOMAIN e /\ fade_type \in DOMAIN timed
                 THEN DictSet(timed, fade_type,
                              DictSet(timed[fade_type], "start", e.start))
                 ELSE timed
  IN IF "enabled" \in DOMAIN e /\ ~e.enabled
     THEN [cfg EXCEPT !.tracks.video.animation = DictDel(animation, fade_type)]
     ELSE [cfg EXCEPT !.tracks.video.animation = started]

\* the caption ids of the highlights of an instruction
CaptionIds(highlights) == {highlights[i].captionId : i \in DOMAIN highlights}

\* the highlights of a list whose captionId is not among ids, in order
RECURSIVE Filter(_, _)
Filter(list, ids) ==
  IF list = <<>> THEN <<>>
  ELSE IF Head(list).captionId \notin ids
       THEN <<Head(list)>> \o Filter(Tail(list), ids)
       ELSE Filter(Tail(list), ids)

\* _update_highlights
update_highlights(cfg, e) ==
  LET operation == IF "operation" \in DOMAIN e THEN e.operation
                   ELSE "replace"
      existing == cfg.tracks.text.highlights
  IN IF operation = "replace"
     THEN [cfg EXCEPT !.tracks.text.highlights = Highlights(e)]
     ELSE IF operation = "add"
     THEN [cfg EXCEPT !.tracks.text.highlights = existing \o Highlights(e)]
     ELSE IF operation = "remove"
     THEN [cfg EXCEPT !.tracks.text.highlights =
             Filter(existing, CaptionIds(Highlights(e)))]
     ELSE cfg

\* apply_edit(config, edit): the content of the dict object `config` when
\* the call is over.  Every _update_* writes into the object it was given
\* and returns that same object.
apply_edit(cfg, e) ==
  LET action == Get(e, "action") IN
  IF Raises(cfg, e) THEN cfg
  ELSE IF action = "update_text_animation" THEN update_text_animation(cfg, e)
  ELSE IF action = "update_video_animation"
  THEN update_video_animation(cfg, e)
  ELSE IF action = "update_text_style" THEN update_text_style(cfg, e)
  ELSE IF action = "update_highlight_style"
  THEN update_highlight_style(cfg, e)
  ELSE IF action = "update_text_position" THEN update_text_position(cfg, e)
  ELSE IF action = "update_video_fade" THEN update_video_fade(cfg, e)
  ELSE IF action = "update_highlights" THEN update_highlights(cfg, e)
  ELSE cfg

\* ------------------------------------------------------- the instructions
TextAnimation(target, preset_id) ==
  [action |-> "update_text_animation", target |-> target,
   preset_id |-> preset_id]
VideoAnimation(preset_id) ==
  [action |-> "update_video_animation", preset_id |-> preset_id]
TextStyle(target, properties) ==
  [action |-> "update_text_style", target |-> target,
   properties |-> properties]
VideoFade(fade_type, enabled) ==
  [action |-> "update_video_fade", fade_type |-> fade_type,
   enabled |-> enabled]
UpdateHighlights(operation, highlights) ==
  [action |-> "update_highlights", operation |-> operation,
   highlights |-> highlights]
Highlight(captionId) ==
  [captionId |-> captionId, wordStartIndex |-> 0, wordEndIndex |-> 1]

\* every id of the registry, and one that is in no category
PresetIds ==
  UNION {Range(ALL_PRESETS[c]) : c \in DOMAIN ALL_PRESETS} \cup {"wiggle"}

\* every animation instruction over the roles, a target that is no role,
\* and the ids
AnimationEdits ==
  {TextAnimation(t, x) : t \in {"entry", "exit", "highlight", "title"},
                         x \in PresetIds}
    \cup {VideoAnimation(x) : x \in PresetIds}

\* instructions of every action, accepted and rejected ones
Edits ==
  { TextAnimation("entry", "fade_in"),
    [action |-> "update_text_animation", target |-> "highlight",
     preset_id |-> "scale_up", duration |-> 5],
    [action |-> "update_text_animation", target |-> "exit",
     preset_id |-> "fade_out", duration |-> 0],
    TextAnimation("entry", "pulse"),
    TextAnimation("title", "fade_in"),
    VideoAnimation("none"),
    VideoAnimation("pulse"),
    TextStyle("globalStyle", [color |-> "#ff0000", fontSize |-> 18]),
    TextStyle("highlightStyle", [fontWeight |-> 400]),
    TextStyle("globalStyle", [scale |-> 120]),
    TextStyle("titleStyle", [color |-> "#ff0000"]),
    [action |-> "update_highlight_style",
     properties |-> [fontWeight |-> 400, scale |-> 120]],
    [action |-> "update_text_position", properties |-> [offsetY |-> -80]],
    [action |-> "update_text_position", properties |-> [offsetX |-> 10]],
    VideoFade("fadeOut", FALSE),
    VideoFade("fadeOut", TRUE),
    VideoFade("fadeIn", FALSE),
    VideoFade("fadeIn", TRUE),
    [action |-> "update_video_fade", fade_type |-> "fadeOut",
     start |-> 20, duration |-> 20],
    [action |-> "update_video_fade", fade_type |-> "fadeIn",
     duration |-> 0],
    UpdateHighlights("replace", <<Highlight("cap_001")>>),
    UpdateHighlights("add", <<Highlight("cap_002")>>),
    UpdateHighlights("remove", <<Highlight("cap_001")>>),
    UpdateHighlights("replace", <<Highlight("cap_009")>>),
    UpdateHighlights("replace", <<[captionId |-> "cap_002",
                                   wordStartIndex |-> 2,
                                   wordEndIndex |-> 1]>>),
    UpdateHighlights("replace", <<[captionId |-> "cap_001"]>>),
    [action |-> "delete_caption"] }

\* ----------------------------------------- validate_single_edit, called
Validate(e) ==
  /\ edit' = e
  /\ verdict' = validate_single_edit(e)
  /\ UNCHANGED <<status, export_url, error, render_progress,
                 render_processes, jobs, proc, files, observed, cancelled,
                 reply>>
  /\ UNCHANGED <<schema, chat, config, before, returned, calls,
                 old, new, merged, words, grouped, command, batch>>

ValidateNext == \E e \in Edits \cup AnimationEdits : Validate(e)

ValidateSpec == Init /\ [][ValidateNext]_vars

\* ------------------------------------------------- apply_edit, called
\* A caller holds a tree in the dict object `config` and calls
\* apply_edit(config, e).  The function writes into that object; what it
\* returns is the object itself unless a subscript raised.
Apply(e) ==
  /\ calls < MaxCalls
  /\ Len(apply_edit(config, e).tracks.text.highlights) <= MaxHighlights
  /\ calls' = calls + 1
  /\ before' = config
  /\ config' = apply_edit(config, e)
  /\ returned' = IF Raises(config, e) THEN "exception" ELSE "config"
  /\ edit' = e
  /\ UNCHANGED <<status, export_url, error, render_progress,
                 render_processes, jobs, proc, files, observed, cancelled,
                 reply>>
  /\ UNCHANGED <<schema, chat, verdict, old, new, merged, words, grouped,
                 command, batch>>

\* the caller holds the tree of a new project
ApplyInit ==
  /\ RenderInit /\ MergeIdle /\ GroupIdle /\ CompileIdle /\ BatchIdle
  /\ schema = [p \in Projects |-> EditConfig(30)]
  /\ chat = NoChat
  /\ config \in {EditConfig(d) : d \in Durations}
  /\ before = config
  /\ returned = "none"
  /\ edit = NoEdit
  /\ verdict = NoVerdict
  /\ calls = 0

ApplyNext == \E e \in Edits : Apply(e)

ApplySpec == ApplyInit /\ [][ApplyNext]_vars

\* ------------------------------------------------------------ chat_edit
\* mutant of ProcessEdits: the loop ends at the first rejected edit
RECURSIVE ProcessEditsUntilRejected(_, _, _, _)
ProcessEditsUntilRejected(updated_config, edits, applied, rejected) ==
  IF edits = <<>>
  THEN [updated_config |-> updated_config, applied |-> applied,
        rejected |-> rejected]
  ELSE IF validate_single_edit(Head(edits)).ok
          /\ ~Raises(updated_config, Head(edits))
  THEN ProcessEditsUntilRejected(apply_edit(updated_config, Head(edits)),
                                 Tail(edits), applied + 1, rejected)
  ELSE [updated_config |-> updated_config, applied |-> applied,
        rejected |-> rejected + 1]

\* lines 90-114: the loop over the edits of the LLM response, on the deep
\* copy of the stored tree; how many were applied and how many rejected
RECURSIVE ProcessEdits(_, _, _, _)
ProcessEdits(updated_config, edits, applied, rejected) ==
  IF edits = <<>>
  THEN [updated_config |-> updated_config, applied |-> applied,
        rejected |-> rejected]
  ELSE IF validate_single_edit(Head(edits)).ok
          /\ ~Raises(updated_config, Head(edits))
  THEN ProcessEdits(apply_edit(updated_config, Head(edits)), Tail(edits),
                    applied + 1, rejected)
  ELSE ProcessEdits(updated_config, Tail(edits), applied, rejected + 1)

ChatEditResponse(p, response_status, applied, rejected, written) ==
  [project |-> p, status |-> response_status, applied |-> applied,
   rejected |-> rejected, written |-> written]

\* mutant of ChatEdit: the row is written whatever was applied
ChatEditAlwaysWrites(p, is_allowed, edits) ==
  \E r \in {ProcessEdits(schema[p], edits, 0, 0)} :
  /\ Len(r.updated_config.tracks.text.highlights) <= MaxHighlights
  /\ schema' = [schema EXCEPT ![p] = r.updated_config]
  /\ status' = [status EXCEPT ![p] = "ready"]
  /\ chat' = ChatEditResponse(p,
               IF r.applied = 0 THEN "rejected"
               ELSE IF r.rejected > 0 THEN "partial_success" ELSE "success",
               r.applied, r.rejected, TRUE)
  /\ UNCHANGED <<export_url, error, render_progress, render_processes,
                 jobs, proc, files, observed, cancelled, reply>>
  /\ UNCHANGED <<config, before, returned, edit, verdict, calls,
                 old, new, merged, words, grouped, command>>

\* chat_edit for project p, the LLM answering with is_allowed and edits
ChatEdit(p, is_allowed, edits) ==
  \E r \in {ProcessEdits(schema[p], edits, 0, 0)} :
  /\ Len(r.updated_config.tracks.text.highlights) <= MaxHighlights
  /\ IF ~is_allowed \/ edits = <<>>
     THEN /\ chat' = ChatEditResponse(p, "rejected", 0, 0, FALSE)
          /\ UNCHANGED <<schema, status>>
     ELSE IF r.applied = 0
     THEN /\ chat' = ChatEditResponse(p, "rejected", 0, r.rejected, FALSE)
          /\ UNCHANGED <<schema, status>>
     ELSE /\ schema' = [schema EXCEPT ![p] = r.updated_config]
          /\ status' = [status EXCEPT ![p] = "ready"]
          /\ chat' = ChatEditResponse(p,
                       IF r.rejected > 0 THEN "partial_success"
                       ELSE "success",
                       r.applied, r.rejected, TRUE)
  /\ UNCHANGED <<export_url, error, render_progress, render_processes,
                 jobs, proc, files, observed, cancelled, reply>>
  /\ UNCHANGED <<config, before, returned, edit, verdict, calls,
                 old, new, merged, words, grouped, command>>

\* the batches of the model: none, every single instruction, and the pairs
\* of a few accepted and rejected instructions
PairEdits ==
  { TextAnimation("entry", "fade_in"), TextAnimation("entry", "pulse"),
    VideoFade("fadeOut", FALSE), VideoAnimation("pulse") }
Batches ==
  {<<>>} \cup {<<e>> : e \in Edits}
         \cup {<<e, f>> : e \in PairEdits, f \in PairEdits}

\* the project whose tree is edited
Edited == {"p1"}

\* the projects hold the tree of a new project, of a video long enough for
\* the default fade out, and have been exported
EditInit ==
  /\ NoRender("exported", "url")
  /\ MergeIdle /\ GroupIdle /\ CompileIdle /\ BatchIdle
  /\ \E d \in {x \in Durations : x >= FadeOutDuration} :
       schema = [p \in Projects |-> EditConfig(d)]
  /\ chat = NoChat
  /\ config = NoTree
  /\ before = NoTree
  /\ returned = "none"
  /\ edit = NoEdit
  /\ verdict = NoVerdict
  /\ calls = 0

\* the LLM refuses the request, or answers with a batch
EditNext ==
  \/ \E p \in Edited : ChatEdit(p, FALSE, <<>>) /\ UNCHANGED batch
  \/ \E p \in Edited, edits \in Batches :
       ChatEdit(p, TRUE, edits) /\ UNCHANGED batch

EditSpec == EditInit /\ [][EditNext]_vars

\* _get_edit_description(edit): the words that the text is made of
get_edit_description(e) ==
  LET action == GetOr(e, "action", "unknown") IN
  IF action = "update_text_animation"
  THEN <<GetOr(e, "target", ""), "animation to", GetOr(e, "preset_id", "")>>
  ELSE IF action = "update_video_animation"
  THEN <<"video animation to", GetOr(e, "preset_id", "")>>
  ELSE IF action = "update_text_style"
  THEN <<GetOr(e, "target", ""), DOMAIN Properties(e)>>
  ELSE IF action = "update_video_fade"
  THEN <<GetOr(e, "fade_type", ""), "settings">>
  ELSE IF action = "update_highlights"
  THEN <<GetOr(e, "operation", ""), "highlights">>
  ELSE <<action>>

\* lines 91-114: the lists applied_edits and rejected_edits that the loop
\* builds; a rejected edit is listed with the error message
RECURSIVE ReportEdits(_, _, _, _)
ReportEdits(updated_config, edits, applied_edits, rejected_edits) ==
  IF edits = <<>>
  THEN [applied_edits |-> applied_edits, rejected_edits |-> rejected_edits]
  ELSE IF ~validate_single_edit(Head(edits)).ok
  THEN ReportEdits(updated_config, Tail(edits), applied_edits,
                   Append(rejected_edits,
                          [edit |-> get_edit_description(Head(edits)),
                           error |-> validate_single_edit(Head(edits)).kind]))
  ELSE IF Raises(updated_config, Head(edits))
  THEN ReportEdits(updated_config, Tail(edits), applied_edits,
                   Append(rejected_edits,
                          [edit |-> get_edit_description(Head(edits)),
                           error |-> "KeyError"]))
  ELSE ReportEdits(apply_edit(updated_config, Head(edits)), Tail(edits),
                   Append(applied_edits, get_edit_description(Head(edits))),
                   rejected_edits)

\* chat_edit for project p, the LLM answering with the batch `edits`, and
\* the lists of its response
ChatBatch(p, edits) ==
  /\ ChatEdit(p, TRUE, edits)
  /\ batch' = [edits |-> edits]
                @@ (IF edits = <<>>
                    THEN [applied_edits |-> <<>>, rejected_edits |-> <<>>]
                    ELSE ReportEdits(schema[p], edits, <<>>, <<>>))

\* the batches of at most MaxBatch instructions, accepted and rejected
BatchEdits == SeqsUpTo(PairEdits, MaxBatch)

BatchNext == \E p \in Edited, edits \in BatchEdits : ChatBatch(p, edits)

BatchSpec == EditInit /\ [][BatchNext]_vars

\* -------------------------------------------------------- SchemaService
\* str(n): the decimal digits of n
RECURSIVE Decimal(_)
Decimal(n) == IF n < 10 THEN <<n>> ELSE Decimal(n \div 10) \o <<n % 10>>

\* str.zfill(width), and the format :03d
RECURSIVE ZeroFill(_, _)
ZeroFill(digits, width) ==
  IF Len(digits) >= width THEN digits ELSE ZeroFill(<<0>> \o digits, width)

\* an id: the text before the number, and the digits written after it
Id(prefix, digits) == [prefix |-> prefix, digits |-> digits]

\* _default_caption_block(i): id is f"caption_{i}"
default_caption_block(i) ==
  [id |-> Id("caption_", Decimal(i)), type |-> "caption", content |-> "",
   start |-> 0, end |-> 1]

\* _merge_segment(base, gem, idx): the fields of gem that are given replace
\* those of the copy of base; an empty text is not given
merge_segment(base, gem, idx) ==
  [base EXCEPT
     !.content = IF "text" \in DOMAIN gem /\ gem.text # "" THEN gem.text
                 ELSE @,
     !.start = IF "start" \in DOMAIN gem THEN gem.start ELSE @,
     !.end = IF "end" \in DOMAIN gem THEN gem.end ELSE @]

\* mutant of merge_segments: the prior captions beyond the generated ones
\* are dropped
merge_segments_truncating(old_captions, gem_segments) ==
  [k \in 1..Len(gem_segments) |->
     merge_segment(IF k - 1 < Len(old_captions) THEN old_captions[k]
                   ELSE default_caption_block(k - 1),
                   gem_segments[k], k - 1)]

\* _merge_segments(old, new): position k of a sequence is index k - 1 of
\* the list
merge_segments(old_captions, gem_segments) ==
  [k \in 1..Len(gem_segments) |->
     merge_segment(IF k - 1 < Len(old_captions) THEN old_captions[k]
                   ELSE default_caption_block(k - 1),
                   gem_segments[k], k - 1)]
    \o (IF Len(old_captions) > Len(gem_segments)
        THEN SubSeq(old_captions, Len(gem_segments) + 1, Len(old_captions))
        ELSE <<>>)

\* the captions of generate_edit_config: id is "cap_" + str(i+1).zfill(3)
Caption(i, content) ==
  [id |-> Id("cap_", ZeroFill(Decimal(i + 1), 3)), type |-> "caption",
   content |-> content, start |-> 2 * i, end |-> 2 * i + 1]

\* prior caption lists: caption i has one of two texts
OldLists ==
  {[k \in 1..Len(texts) |-> Caption(k - 1, texts[k])] :
     texts \in SeqsUpTo({"hello", "world"}, MaxCaptions)}

\* generated segments: with text and times, with text only, with a start
\* only, with an empty text
Segments ==
  { [text |-> "new", start |-> 7, end |-> 9], [text |-> "new"],
    [start |-> 7], [text |-> ""] }

\* merge_gemini_into_schema, lines 46-50: the captions of the tree are
\* replaced by the merge of the generated segments into them
Merge ==
  /\ ~merged.called
  /\ merged' = [called |-> TRUE, list |-> merge_segments(old, new)]
  /\ UNCHANGED <<old, new>>
  /\ UNCHANGED <<status, export_url, error, render_progress,
                 render_processes, jobs, proc, files, observed, cancelled,
                 reply>>
  /\ UNCHANGED <<schema, chat, config, before, returned, edit, verdict,
                 calls, words, grouped, command, batch>>

\* a prior caption list and generated segments, not merged yet
MergeInit ==
  /\ RenderInit /\ EditIdle /\ GroupIdle /\ CompileIdle /\ BatchIdle
  /\ old \in OldLists
  /\ new \in SeqsUpTo(Segments, MaxSegments)
  /\ merged = [called |-> FALSE, list |-> <<>>]

MergeNext == Merge

MergeSpec == MergeInit /\ [][MergeNext]_vars

\* -------------------------------------------------------- GeminiService
\* the defaults of _group_words_into_captions
max_words == 5
max_duration_ms == 3000
pause_threshold_ms == 300

\* a word of the transcription: its text, a sequence of characters, and its
\* times in milliseconds
Word(text, start, end) == [text |-> text, start |-> start, end |-> end]

\* ms / 1000: a number of seconds, as its whole seconds and its thousandths
Seconds(ms) == [s |-> ms \div 1000, thousandths |-> ms % 1000]

\* ' '.join of the texts of the words
RECURSIVE JoinTexts(_)
JoinTexts(group) ==
  IF Len(group) = 1 THEN group[1].text
  ELSE group[1].text \o <<" ">> \o JoinTexts(Tail(group))

\* the caption appended for a group, lines 172-178
GroupCaption(current_group) ==
  [text |-> JoinTexts(current_group),
   start |-> Seconds(current_group[1].start),
   end |-> Seconds(current_group[Len(current_group)].end),
   word_count |-> Len(current_group),
   duration_ms |-> current_group[Len(current_group)].end
                     - current_group[1].start]

\* any(p in word['text'] for p in ['.', '!', '?', ','])
has_punctuation(word) ==
  \E k \in DOMAIN word.text : word.text[k] \in {".", "!", "?", ","}

\* mutant of should_break: the word count is not looked at
should_break_uncounted(list, i, current_group) ==
  LET word == list[i]
      pause_after == IF i < Len(list) THEN list[i + 1].start - word.end
                     ELSE 0
      caption_duration == word.end - current_group[1].start
      word_count == Len(current_group)
  IN \/ caption_duration >= max_duration_ms
     \/ pause_after >= pause_threshold_ms
     \/ has_punctuation(word) /\ word_count >= 2

\* lines 139-166: should_break for word i (from 1), which is already the
\* last of current_group
should_break(list, i, current_group) ==
  LET word == list[i]
      pause_after == IF i < Len(list) THEN list[i + 1].start - word.end
                     ELSE 0
      caption_duration == word.end - current_group[1].start
      word_count == Len(current_group)
  IN \/ word_count >= max_words
     \/ caption_duration >= max_duration_ms
     \/ pause_after >= pause_threshold_ms
     \/ has_punctuation(word) /\ word_count >= 2

\* the loop of lines 135-180 from word i on
RECURSIVE GroupFrom(_, _, _, _)
GroupFrom(list, i, current_group, captions) ==
  IF i > Len(list) THEN captions
  ELSE LET group == Append(current_group, list[i]) IN
       IF should_break(list, i, group) \/ i = Len(list)
       THEN GroupFrom(list, i + 1, <<>>,
                      Append(captions, GroupCaption(group)))
       ELSE GroupFrom(list, i + 1, group, captions)

\* _group_words_into_captions(transcription_data) with the default limits
group_words_into_captions(list) == GroupFrom(list, 1, <<>>, <<>>)

\* the texts of the words of the model: plain, ending in a full stop,
\* ending in a comma, with a full stop inside
Texts == { <<"h", "i">>, <<"h", "i", ".">>, <<"h", "i", ",">>,
           <<"a", ".", "m">> }
\* how a word is spoken: the silence before it and how long it lasts (ms)
Timings == { [gap |-> 0, length |-> 200], [gap |-> 300, length |-> 200],
             [gap |-> 0, length |-> 1600] }
Kinds == [text : Texts, timing : Timings]
PlainKind == [text |-> <<"h", "i">>, timing |-> [gap |-> 0, length |-> 200]]

\* the word stream of a sequence of kinds: a word starts after the silence
\* that follows the end of the word before it
RECURSIVE Stream(_, _)
Stream(kinds, from) ==
  IF kinds = <<>> THEN <<>>
  ELSE LET k == Head(kinds)
           start == from + k.timing.gap
       IN <<Word(k.text, start, start + k.timing.length)>>
            \o Stream(Tail(kinds), start + k.timing.length)

\* the places of a stream of n words at which a word is not plain: at most
\* MaxSpecial of them
SpecialPlaces(n) == {T \in SUBSET (1..n) : Cardinality(T) <= MaxSpecial}

\* process_transcription, line 61: the words are grouped
Group ==
  /\ ~grouped.called
  /\ grouped' = [called |-> TRUE,
                 captions |-> group_words_into_captions(words)]
  /\ UNCHANGED words
  /\ UNCHANGED <<status, export_url, error, render_progress,
                 render_processes, jobs, proc, files, observed, cancelled,
                 reply>>
  /\ UNCHANGED <<schema, chat, config, before, returned, edit, verdict,
                 calls, old, new, merged, command, batch>>

\* a transcription of at most MaxWords words, not grouped yet
GroupInit ==
  /\ RenderInit /\ EditIdle /\ MergeIdle /\ CompileIdle /\ BatchIdle
  /\ \E n \in 0..MaxWords : \E S \in SpecialPlaces(n) :
       \E f \in [S -> Kinds \ {PlainKind}] :
         words = Stream([i \in 1..n |-> IF i \in S THEN f[i]
                                        ELSE PlainKind], 0)
  /\ grouped = [called |-> FALSE, captions |-> <<>>]

GroupNext == Group

GroupSpec == GroupInit /\ [][GroupNext]_vars

\* -------------------------------------------------------- FFmpegService
\* generate_ass_subtitles(config): "" when the tree has no caption, else
\* the file, of which the Dialogue lines are kept, one per caption
generate_ass_subtitles(cfg) ==
  LET captions == GetOr(GetOr(GetOr(cfg, "tracks", <<>>), "text", <<>>),
                        "captions", <<>>)
  IN [k \in DOMAIN captions |-> [dialogue |-> captions[k].text]]

\* one fade filter, "fade=t=in:st=..:d=.." or "fade=t=out:st=..:d=.."
FadeFilter(t, st, d) == [filter |-> "fade", t |-> t, st |-> st, d |-> d]

\* mutant of build_video_filter: the preset decides which fades are built
build_video_filter_by_preset(cfg) ==
  LET video_anim == cfg.tracks.video.animation
      preset == GetOr(video_anim, "presetId", "none")
      fade_in == GetOr(video_anim, "fadeIn", <<>>)
      fade_out == GetOr(video_anim, "fadeOut", <<>>)
  IN (IF DOMAIN fade_in # {} /\ preset \in {"fade_in", "fade_in_out"}
      THEN <<FadeFilter("in", GetOr(fade_in, "start", 0),
                        GetOr(fade_in, "duration", FadeInDuration))>>
      ELSE <<>>)
     \o (IF DOMAIN fade_out # {} /\ preset \in {"fade_out", "fade_in_out"}
         THEN <<FadeFilter("out", GetOr(fade_out, "start", 0),
                           GetOr(fade_out, "duration", FadeOutDuration))>>
         ELSE <<>>)

\* build_video_filter(config): the filters that "," joins
build_video_filter(cfg) ==
  LET video_anim == GetOr(GetOr(GetOr(cfg, "tracks", <<>>), "video", <<>>),
                          "animation", <<>>)
      duration == GetOr(GetOr(cfg, "meta", <<>>), "duration", 0)
      fade_in == GetOr(video_anim, "fadeIn", <<>>)
      fade_out == GetOr(video_anim, "fadeOut", <<>>)
  IN (IF DOMAIN fade_in # {}
      THEN <<FadeFilter("in", GetOr(fade_in, "start", 0),
                        GetOr(fade_in, "duration", FadeInDuration))>>
      ELSE <<>>)
     \o (IF DOMAIN fade_out # {}
         THEN <<FadeFilter("out",
                           GetOr(fade_out, "start",
                                 Max(0, duration - FadeOutDuration)),
                           GetOr(fade_out, "duration", FadeOutDuration))>>
         ELSE <<>>)

\* target_heights.get(resolution, 1080)
TargetHeight(resolution) ==
  IF resolution = "720p" THEN 720
  ELSE IF resolution = "480p" THEN 480
  ELSE 1080

RECURSIVE GCD(_, _)
GCD(a, b) == IF b = 0 THEN a ELSE GCD(b, a % b)

RECURSIVE PowerOfTwo(_)
PowerOfTwo(n) == n = 1 \/ (n > 1 /\ n % 2 = 0 /\ PowerOfTwo(n \div 2))

\* int(target_height * (source_width / source_height)), lines 297 and 308.
\* The quotient and the product are floating-point numbers.  When the
\* exact product is not a whole number int() gives its floor.  When it is a
\* whole number n and the quotient has no exact binary representation, the
\* rounded product is n or the float just below n, and int() gives n or
\* n - 1.
IntOfProduct(target_height, source_width, source_height) ==
  LET n == (target_height * source_width) \div source_height
      whole == (target_height * source_width) % source_height = 0
      exact == PowerOfTwo(source_height
                            \div GCD(source_width, source_height))
  IN {n} \cup (IF whole /\ ~exact /\ n > 0 THEN {n - 1} ELSE {})

\* the widths and heights at which lines 292-316 can arrive: "original"
\* gives no size
TargetSizes(cfg, resolution) ==
  LET video == GetOr(GetOr(cfg, "source", <<>>), "video", <<>>)
      source_width == GetOr(video, "width", 1920)
      source_height == GetOr(video, "height", 1080)
      target_height == TargetHeight(resolution)
      widths == IF source_height > 0
                THEN IntOfProduct(target_height, source_width, source_height)
                ELSE IntOfProduct(target_height, 16, 9)
  IN IF resolution = "original" THEN {<<>>}
     ELSE { <<IF target_width % 2 # 0 THEN target_width + 1
              ELSE target_width,
              IF target_height % 2 # 0 THEN target_height + 1
              ELSE target_height>> : target_width \in widths }

\* build_ffmpeg_command(input_url, output_path, config, resolution, quality,
\* subtitle_file_path): the -vf filters and the -s size.  The other
\* arguments do not depend on the tree.
build_ffmpeg_command(cfg, size, subtitle_file_path) ==
  [vf |-> build_video_filter(cfg)
            \o (IF subtitle_file_path # None
                THEN <<[filter |-> "subtitles", file |-> subtitle_file_path]>>
                ELSE <<>>),
   s |-> size]

\* render_video, lines 361-374: the subtitle file is written when the tree
\* has captions, and the command is built
render_video_command(cfg, size) ==
  LET ass_content == generate_ass_subtitles(cfg)
      subtitle_file == IF ass_content # <<>> THEN "ass" ELSE None
  IN [ass_content |-> ass_content,
      cmd |-> build_ffmpeg_command(cfg, size, subtitle_file)]

\* mutant of render_config: the captions are handed over whatever was asked
render_config_burning(cfg, burn_captions) == cfg

\* start_render, lines 67-72: the tree handed to the job.  config.copy()
\* copies the top level only: the writes go through to the dict that was
\* read from the row, which is then dropped; the row is not written.
render_config(cfg, burn_captions) ==
  IF ~burn_captions /\ "tracks" \in DOMAIN cfg /\ "text" \in DOMAIN cfg.tracks
  THEN [cfg EXCEPT !.tracks.text.captions = <<>>,
                   !.tracks.text.highlights = <<>>]
  ELSE cfg

\* start_render with its export options, handled by server process w: what
\* is handed to the render job, and the command render_video builds from it
RenderRequest(w, p, burn_captions, resolution) ==
  /\ StartRender(w, p)
  /\ IF status[p] = "rendering" THEN UNCHANGED command
     ELSE \E size \in TargetSizes(render_config(schema[p], burn_captions),
                                  resolution) :
            command' =
              [project |-> p, burn_captions |-> burn_captions,
               resolution |-> resolution,
               config |-> render_config(schema[p], burn_captions),
               render |-> render_video_command(
                            render_config(schema[p], burn_captions), size)]

\* the export options of the requests
Resolutions == {"original", "1080p", "720p", "480p", "4k"}

\* the sizes of the source videos: full HD, ultrawide, portrait, a small
\* one, one without height; and a tree that records no size
SourceSizes == { <<1920, 1080>>, <<2560, 1080>>, <<1080, 1920>>,
                 <<13, 360>>, <<1920, 0>> }
Sources ==
  { [video |-> [url |-> "url", width |-> size[1], height |-> size[2]]] :
      size \in SourceSizes } \cup { [video |-> [url |-> "url"]] }

\* the instructions that are asked for between renders: on the video
\* track, and one that highlights words of a caption
TrackEdits ==
  { VideoAnimation("none"), VideoAnimation("fade_in"),
    VideoFade("fadeIn", FALSE), VideoFade("fadeOut", FALSE),
    VideoFade("fadeIn", TRUE),
    UpdateHighlights("replace", <<Highlight("cap_001")>>) }

\* ------------------------------------------------------- specification
\* the requests for the project ids in P
Requests(P) ==
  \/ \E w \in Workers, p \in P : StartRender(w, p) /\ UNCHANGED command
  \/ \E w \in Workers, p \in P : GetRenderStatus(w, p)
  \/ \E w \in Workers, p \in P : CancelRender(w, p) /\ UNCHANGED reply

\* the steps of the render tasks and of their encoders and uploads
TaskStep ==
  \/ \E j \in JobIds, captions \in BOOLEAN : TaskBegin(j, captions)
  \/ \E j \in JobIds, t \in Times : StderrLine(j, t)
  \/ \E j \in JobIds, ok \in BOOLEAN : EncoderExit(j, ok)
  \/ \E j \in JobIds, n \in 1..MaxChunk : UploadRead(j, n)
  \/ \E j \in JobIds : UploadReturn(j)
  \/ \E j \in JobIds : UploadRaise(j)
  \/ \E j \in JobIds : StoreExportUrl(j)
  \/ \E j \in JobIds : SetExported(j)
  \/ \E j \in JobIds : SetFailed(j)
  \/ \E j \in JobIds : StoreError(j)
  \/ \E j \in JobIds : TaskFinally(j)

\* Jobs of different project ids share no state but the event loops they
\* wait for, so the lifecycle of one id is studied with the requests for
\* that id; every server process and every interleaving is kept.
Rendered == {"p1"}

Next == Requests(Rendered) \/ TaskStep

Spec == Init /\ [][Next]_vars

\* The task is straight-line code on an event loop that runs every queued
\* background task; the encoder is taken to exit and the upload to return or
\* raise.  Status lines and stream reads may be any number.
JobStep(j) ==
  \/ \E captions \in BOOLEAN : TaskBegin(j, captions)
  \/ \E ok \in BOOLEAN : EncoderExit(j, ok)
  \/ UploadReturn(j) \/ UploadRaise(j)
  \/ StoreExportUrl(j) \/ SetExported(j)
  \/ SetFailed(j) \/ StoreError(j)
  \/ TaskFinally(j)

\* The status queries read the state and write none of it: the behaviours
\* in which progress is judged are those of the other requests and the tasks.
LiveNext ==
  \/ \E w \in Workers, p \in Rendered : StartRender(w, p) /\ UNCHANGED command
  \/ \E w \in Workers, p \in Rendered :
       CancelRender(w, p) /\ UNCHANGED reply
  \/ TaskStep

LiveSpec == Init /\ [][LiveNext]_vars /\ \A j \in JobIds : WF_vars(JobStep(j))

\* The cancel requests for every project id, each with its answer, among
\* the start requests and the tasks of the rendered project id: the other
\* id is one that has never been rendered.  The encoders print no status
\* line and the uploads are not read in pieces here: those steps change the
\* progress value of an entry and nothing else.
CancelNext ==
  \/ \E w \in Workers, p \in Rendered : StartRender(w, p) /\ UNCHANGED command
  \/ \E w \in Workers, p \in Projects : CancelRequest(w, p)
  \/ \E j \in JobIds : JobStep(j)

CancelSpec == Init /\ [][CancelNext]_vars

\* the projects hold the tree of a new project, of a source video of one
\* of the sizes
CompileInit ==
  /\ RenderInit /\ MergeIdle /\ GroupIdle /\ CompileIdle /\ BatchIdle
  /\ \E source \in Sources :
       schema = [p \in Projects |-> DictSet(EditConfig(30), "source", source)]
  /\ chat = NoChat
  /\ config = NoTree
  /\ before = NoTree
  /\ returned = "none"
  /\ edit = NoEdit
  /\ verdict = NoVerdict
  /\ calls = 0

\* what is handed over and compiled does not depend on the server process
\* that takes the request: one takes them here
Taking == {"w1"}

\* renders are asked for, with every export option, between edits; the
\* tasks do not begin
CompileNext ==
  \/ \E w \in Taking, p \in Rendered, burn_captions \in BOOLEAN,
        resolution \in Resolutions :
       RenderRequest(w, p, burn_captions, resolution)
  \/ \E p \in Rendered, e \in TrackEdits :
       ChatEdit(p, TRUE, <<e>>) /\ UNCHANGED batch

CompileSpec == CompileInit /\ [][CompileNext]_vars

\* The server processes are alike: the one that takes the start requests
\* for p1 is named w1, those for p2 are taken by either.
Starting(p) == IF p = "p1" THEN {"w1"} ELSE Workers

\* The start and cancel requests and the task steps of project id p.  The
\* task writes its progress entry when it begins, when the encoder exits
\* and when the upload is over; the status lines and stream reads between
\* them write the progress value of the same entry and are left out.  The
\* trees have no caption to burn: no subtitle file is written.
StepOf(p) ==
  \/ \E w \in Starting(p) : StartRender(w, p) /\ UNCHANGED command
  \/ \E w \in Workers : CancelRender(w, p) /\ UNCHANGED reply
  \/ \E j \in JobIds :
       /\ jobs[j].project = p
       /\ \/ TaskBegin(j, FALSE)
          \/ \E ok \in BOOLEAN : EncoderExit(j, ok)
          \/ UploadReturn(j) \/ UploadRaise(j)
          \/ StoreExportUrl(j) \/ SetExported(j)
          \/ SetFailed(j) \/ StoreError(j)
          \/ TaskFinally(j)

\* Renders of both project ids, in one server process or in two, with the
\* cancel requests for both
PairNext == \E p \in Projects : StepOf(p)

PairSpec == Init /\ [][PairNext]_vars

\* update_video_hack always uses one project id
HackProject == "p1"

\* the urls of the video-replacement requests
VideoUrls == {"url", "url_2"}

\* update_video_hack, handled by server process w: the url of the stored
\* tree is replaced and ProjectRepo.update_schema writes the tree with
\* status "ready"
UpdateVideoHack(w, video_url) ==
  /\ LoopFree(w)
  /\ "source" \in DOMAIN schema[HackProject]
  /\ schema' = [schema EXCEPT ![HackProject].source.video.url = video_url]
  /\ status' = [status EXCEPT ![HackProject] = "ready"]
  /\ UNCHANGED <<export_url, error, render_progress, render_processes,
                 jobs, proc, files, observed, cancelled, reply>>
  /\ UNCHANGED <<chat, config, before, returned, edit, verdict, calls,
                 old, new, merged, words, grouped, command, batch>>

\* chat_edit, handled by server process w
ChatRequest(w, p, edits) ==
  /\ LoopFree(w)
  /\ ChatEdit(p, TRUE, edits)
  /\ UNCHANGED batch

\* the batches sent while a project is rendered: one that is applied and
\* one that is rejected
MixEdits == { <<VideoAnimation("fade_in")>>, <<VideoAnimation("pulse")>> }

\* the projects hold the tree of a new project with a source video
MixInit ==
  /\ RenderInit /\ MergeIdle /\ GroupIdle /\ CompileIdle /\ BatchIdle
  /\ schema = [p \in Projects |->
                 DictSet(EditConfig(30), "source", [video |-> [url |-> "url"]])]
  /\ chat = NoChat
  /\ config = NoTree
  /\ before = NoTree
  /\ returned = "none"
  /\ edit = NoEdit
  /\ verdict = NoVerdict
  /\ calls = 0

\* no task waits for its event loop
NoneQueued == \A j \in JobIds : jobs[j] = NoJob \/ jobs[j].pc # "queued"

\* renders of the project of update_video_hack are started and run among
\* chat edits and video replacements for it; no render is cancelled, and a
\* start request is sent when the task of the one before it has begun, so
\* that the tasks by themselves keep the status until their outcome
MixNext ==
  \/ \E w \in Workers :
       NoneQueued /\ StartRender(w, HackProject) /\ UNCHANGED command
  \/ \E j \in JobIds : JobStep(j)
  \/ \E w \in Workers, edits \in MixEdits : ChatRequest(w, HackProject, edits)
  \/ \E w \in Workers, video_url \in VideoUrls : UpdateVideoHack(w, video_url)

MixSpec == MixInit /\ [][MixNext]_vars

\* ----------------------------------------------------------------- claims
\* the live invocations for project id p
LiveJobs(p) == {j \in JobIds : Live(j) /\ jobs[j].project = p}

\* C1: at most one render task is live per project id: two render tasks for
\* the same project id never run at the same time.
C1_OneLiveJobPerProject ==
  \A p \in Projects : Cardinality(LiveJobs(p)) <= 1

\* C2: when a cancel request is accepted while the encoder process of a job
\* of that project is running, that encoder process is no longer running once
\* the cancel operation has returned.
C2_CancelStopsEncoder ==
  [][\A w \in Workers, p \in Projects :
       (CancelRender(w, p) /\ status[p] = "rendering")
         => \A j \in LiveJobs(p) : proc[j] = "running" => proc'[j] # "running"
    ]_vars

\* C3: after a successful cancel, and until a render task begins for that
\* project id, no server process holds a progress or process entry for it.
C3_NoEntryAfterCancel ==
  \A p \in Projects :
    cancelled[p] => \A w \in Workers :
                      /\ render_progress[w][p] = NoEntry
                      /\ render_processes[w][p] = 0

\* C4: after a successful cancel the project status is "ready", and the next
\* value it takes is "rendering" (a render begun): it never goes from the
\* cancelled state to "failed" or "exported".
C4_CancelledStaysReady ==
  [][\A p \in Projects :
       cancelled[p] => /\ status[p] = "ready"
                       /\ status'[p] \in {"ready", "rendering"}
    ]_vars

\* C5: between two successive status queries with no render started for the
\* project id in between, the progress answered does not decrease.
C5_PollMonotone ==
  [][\A p \in Projects :
       (observed[p] # NoProgress /\ observed'[p] # NoProgress)
         => observed'[p] >= observed[p]
    ]_vars

\* C6: every progress entry is within the range of its phase: "rendering"
\* 0..80, "uploading" 80..100, "completed" exactly 100; while a task is still
\* encoding its entry does not exceed 80.
C6_PhaseProgressRange ==
  /\ \A w \in Workers, p \in Projects :
       LET e == render_progress[w][p] IN
         e # NoEntry =>
           /\ e.phase = "rendering" => (0 <= e.progress /\ e.progress <= 80)
           /\ e.phase = "uploading" => (80 <= e.progress /\ e.progress <= 100)
           /\ e.phase = "completed" => e.progress = 100
  /\ \A j \in JobIds :
       (Live(j) /\ jobs[j].pc = "encoding")
         => render_progress[jobs[j].worker][jobs[j].project].progress <= 80

\* an upload read has moved the entry into the upload range
C6_Witness ==
  \E w \in Workers : render_progress[w]["p1"] = Entry(90, "uploading")

\* C7: once a render task is over (and before it begins) none of its
\* temporary files exists; the subtitle file exists only while the encoder
\* runs; a server process holds a progress or process entry for a project id
\* only while it runs a task for that id.
C7_CleanupAtTaskEnd ==
  /\ \A j \in JobIds :
       /\ ~Live(j) => (<<j, "mp4">> \notin files /\ <<j, "ass">> \notin files)
       /\ <<j, "ass">> \in files => jobs[j].pc = "encoding"
  /\ \A w \in Workers, p \in Projects :
       (render_progress[w][p] # NoEntry \/ render_processes[w][p] # 0)
         => \E j \in LiveJobs(p) : jobs[j].worker = w

\* a task that ended by an upload failure, and nothing is running any more
C7_Witness ==
  /\ error["p1"] = "upload" /\ status["p1"] = "failed"
  /\ \A j \in JobIds : jobs[j] = NoJob

\* C8: a task is in its upload stage, and an entry has phase "uploading",
\* only after that task's encoder has exited with code 0; an entry never goes
\* from "uploading" back to "rendering"; the status is set to "exported" only
\* by a task whose upload has returned and with the export URL stored.
C8_StagesSequential ==
  [][/\ \A j \in JobIds :
          (jobs'[j] # NoJob /\ jobs'[j].pc = "uploading") => proc'[j] = "exit0"
     /\ \A w \in Workers, p \in Projects :
          /\ render_progress'[w][p].phase = "uploading"
               => \E j \in JobIds : /\ jobs'[j].worker = w
                                    /\ jobs'[j].project = p
                                    /\ proc'[j] = "exit0"
          /\ render_progress[w][p].phase = "uploading"
               => render_progress'[w][p].phase # "rendering"
     /\ \A p \in Projects :
          (status'[p] = "exported" /\ status[p] # "exported")
            => /\ export_url[p] = "url"
               /\ \E j \in JobIds : /\ jobs[j].project = p
                                    /\ jobs[j].pc = "url_stored"
                                    /\ jobs'[j].pc = "finally"
    ]_vars

\* a task has gone through encode, upload and the two database writes
C8_Witness ==
  /\ status["p1"] = "exported" /\ export_url["p1"] = "url"
  /\ \E w \in Workers : render_progress[w]["p1"] = Entry(100, "completed")

\* C9: an encoder that does not exit with code 0, and an upload that raises,
\* take the task to its except block; from there the task sets the status to
\* "failed", then records the error, then ends; after an encoder failure no
\* upload read has happened; a failed task writes neither the export URL nor
\* the status "exported".
C9_FailurePath ==
  [][\A j \in JobIds :
       LET a == jobs[j]
           b == jobs'[j]
       IN /\ (a.pc = "encoding" /\ proc'[j] \in {"exit1", "killed"})
               => (b.pc = "except" /\ b.err = "encode")
          /\ (a.pc = "uploading" /\ b.err # "none")
               => (b.pc = "except" /\ b.err = "upload")
          /\ (a.err # "none" /\ b # a)
               => /\ a.pc \in {"except", "failed_set", "finally"}
                  /\ a.pc = "except"
                       => (b.pc = "failed_set"
                           /\ status'[a.project] = "failed")
                  /\ a.pc = "failed_set"
                       => (b.pc = "finally" /\ error'[a.project] = a.err)
                  /\ a.pc = "finally" => b = NoJob
                  /\ a.err = "encode" => a.bytes = 0
                  /\ export_url' = export_url
                  /\ status'[a.project] = "exported"
                       => status[a.project] = "exported"
    ]_vars

\* a task failed in the encoder: "failed" with the error, no export URL
C9_Witness ==
  /\ status["p1"] = "failed" /\ error["p1"] = "encode"
  /\ export_url["p1"] = "none"

\* C10: a status "rendering" is always followed by "exported", "failed" or
\* "ready", given that tasks run on, encoders exit and uploads return or raise.
C10_EventuallyTerminal ==
  \A p \in Projects :
    (status[p] = "rendering") ~> (status[p] \in {"exported", "failed", "ready"})

\* a task has begun and its project has reached "failed" after an upload
C10_Witness ==
  /\ status["p1"] = "failed"
  /\ \E j \in JobIds : jobs[j].pc = "finally" /\ jobs[j].err = "upload"

\* C11: a cancel request for a project id whose status is not "rendering" is
\* answered with an error (400) and changes nothing: the project table, the
\* progress and process tables of every server process, every task and
\* encoder of this and of any other project id, and the files are as before.
C11_CancelNoJobRejected ==
  [][\A w \in Workers, p \in Projects :
       (CancelRequest(w, p) /\ status[p] # "rendering")
         => /\ reply'.code = 400
            /\ UNCHANGED <<status, export_url, error, render_progress,
                           render_processes, jobs, proc, files, cancelled>>
    ]_vars

\* a cancel for p2, which is not being rendered, was refused while an
\* encoder of p1 runs and p1 is "rendering"
C11_Witness ==
  /\ reply = [project |-> "p2", code |-> 400]
  /\ status["p2"] = "ready" /\ status["p1"] = "rendering"
  /\ \E j \in JobIds : /\ jobs[j].project = "p1"
                       /\ proc[j] = "running"
                       /\ render_progress[jobs[j].worker]["p1"] # NoEntry

\* C12: apply_edit is pure: the tree handed to it is, after the call, equal
\* to what it was before the call, whatever the tree and the instruction.
C12_InputTreeUnmodified ==
  returned # "none" => config = before

Unaddressed(tree, e) ==
  IF e.action = "update_text_animation"
  THEN [tree EXCEPT !.tracks.text.animation[e.target] =
          [presetId |-> "",
           duration |-> IF "duration" \in DOMAIN e THEN 0 ELSE @.duration]]
  ELSE IF e.action = "update_video_animation"
  THEN [tree EXCEPT !.tracks.video.animation.presetId = ""]
  ELSE IF e.action = "update_text_style"
  THEN [tree EXCEPT !.tracks.text[e.target] =
          [k \in DOMAIN @ \ DOMAIN e.properties |-> @[k]]]
  ELSE IF e.action = "update_highlight_style"
  THEN [tree EXCEPT !.tracks.text.highlightStyle =
          [k \in DOMAIN @ \ DOMAIN e.properties |-> @[k]]]
  ELSE IF e.action = "update_text_position"
  THEN [tree EXCEPT !.tracks.text.globalStyle.position =
          [k \in DOMAIN @ \ DOMAIN e.properties |-> @[k]]]
  ELSE IF e.action = "update_video_fade"
  THEN [tree EXCEPT !.tracks.video.animation =
          [k \in DOMAIN @ \ {e.fade_type} |-> @[k]]]
  ELSE [tree EXCEPT !.tracks.text.highlights = <<>>]

\* C13: for every valid instruction the tree apply_edit returns differs from
\* the tree it was given only at the fields the instruction addresses; all
\* sibling fields are unchanged.
C13_OnlyAddressedFieldsChange ==
  (returned = "config" /\ validate_single_edit(edit).ok)
    => Unaddressed(config, edit) = Unaddressed(before, edit)

\* the animation of the highlight role was given a preset and a duration
C13_Witness ==
  /\ returned = "config"
  /\ edit.action = "update_text_animation" /\ edit.target = "highlight"
  /\ config.tracks.text.animation.highlight =
       [presetId |-> "scale_up", duration |-> 5]
  /\ before.tracks.text.animation.highlight.presetId = "none"


\* C15: validate_single_edit accepts an update_text_animation exactly when
\* its target is entry, exit or highlight and its preset_id is in the
\* registry list of that target, and an update_video_animation exactly when
\* its preset_id is in the video list; a preset id outside the list of the
\* addressed category is rejected with that category's list in the message.
C15_PresetOfAddressedCategory ==
  /\ edit.action = "update_text_animation" =>
       /\ verdict.ok <=>
            /\ edit.target \in {"entry", "exit", "highlight"}
            /\ edit.preset_id \in Range(ALL_PRESETS[edit.target])
       /\ (~verdict.ok /\ edit.target \in {"entry", "exit", "highlight"})
            => verdict.available = ALL_PRESETS[edit.target]
  /\ edit.action = "update_video_animation" =>
       /\ verdict.ok <=> edit.preset_id \in Range(VIDEO_ANIMATIONS)
       /\ ~verdict.ok => verdict.available = VIDEO_ANIMATIONS

\* an entry preset was refused as an exit animation, with the exit list
C15_Witness ==
  /\ edit = TextAnimation("exit", "fade_in")
  /\ ~verdict.ok
  /\ verdict.available = EXIT_ANIMATIONS

\* the fade of a tree, or "absent"
FadeOf(tree, fade_type) ==
  IF fade_type \in DOMAIN tree.tracks.video.animation
  THEN tree.tracks.video.animation[fade_type]
  ELSE [start |-> -1, duration |-> -1]

\* C16: update_video_fade with enabled false removes the addressed fade key
\* from tracks.video.animation; with enabled true and no start or duration,
\* on a tree without that key, it creates fadeOut as {start: max(0,
\* meta.duration - 2.0), duration: 2.0} and fadeIn as {start: 0, duration:
\* 0.8}; the other fade is the same after both steps.
C16_FadeRemovedAndRecreated ==
  \A f \in {"fadeIn", "fadeOut"} :
    LET other == IF f = "fadeIn" THEN "fadeOut" ELSE "fadeIn" IN
    /\ (returned = "config" /\ edit = VideoFade(f, FALSE))
         => /\ f \notin DOMAIN config.tracks.video.animation
            /\ FadeOf(config, other) = FadeOf(before, other)
    /\ (returned = "config" /\ edit = VideoFade(f, TRUE)
           /\ f \notin DOMAIN before.tracks.video.animation)
         => /\ f \in DOMAIN config.tracks.video.animation
            /\ FadeOf(config, f) =
                 IF f = "fadeIn" THEN [start |-> 0, duration |-> 8]
                 ELSE [start |-> IF config.meta.duration - 20 > 0
                                 THEN config.meta.duration - 20 ELSE 0,
                       duration |-> 20]
            /\ FadeOf(config, other) = FadeOf(before, other)

\* fadeOut was removed by the first call and recreated by the second, on a
\* video of 3 s: it starts at 1.0 s
C16_Witness ==
  /\ calls = 2 /\ returned = "config"
  /\ edit = VideoFade("fadeOut", TRUE)
  /\ "fadeOut" \notin DOMAIN before.tracks.video.animation
  /\ config.tracks.video.animation.fadeOut = [start |-> 10, duration |-> 20]
  /\ "fadeIn" \in DOMAIN config.tracks.video.animation

\* C17: the merge yields max(len(prior), len(generated)) captions, and every
\* prior caption at an index at or beyond len(generated) is at the same
\* index of the result, unchanged.
C17_SurplusCaptionsKept ==
  merged.called =>
    /\ Len(merged.list) = IF Len(old) >= Len(new) THEN Len(old) ELSE Len(new)
    /\ \A k \in Len(new) + 1 .. Len(old) : merged.list[k] = old[k]

\* one segment was merged into two prior captions: the second is kept
C17_Witness ==
  /\ merged.called
  /\ Len(old) = 2 /\ Len(new) = 1
  /\ Len(merged.list) = 2
  /\ merged.list[2] = old[2] /\ merged.list[1] # old[1]

\* C18: merging N segments into an empty prior caption list yields exactly
\* N captions with the ids caption_001, caption_002, ... in order: the id at
\* index i is "caption_" followed by i+1 written with three digits.
C18_IdsFromOneZeroPadded ==
  (merged.called /\ old = <<>>) =>
    /\ Len(merged.list) = Len(new)
    /\ \A k \in 1..Len(merged.list) :
         merged.list[k].id = Id("caption_", ZeroFill(Decimal(k), 3))

\* C19: in every stored tree reached from the tree of a new project by
\* instructions that validate_single_edit accepted and apply_edit applied,
\* each fadeIn and fadeOut that is present has start >= 0, duration > 0 and
\* start + duration <= meta.duration.
C19_FadesWithinDuration ==
  \A p \in Projects :
    \A f \in {"fadeIn", "fadeOut"} \cap DOMAIN schema[p].tracks.video.animation :
      LET fade == schema[p].tracks.video.animation[f] IN
      /\ fade.start >= 0
      /\ fade.duration > 0
      /\ fade.start + fade.duration <= schema[p].meta.duration

\* C20: in every stored tree reached from the tree of a new project by
\* validated and applied instructions, the presetId of the entry, exit and
\* highlight text animations is in the registry list of its role, and the
\* video animation presetId is in the video list.
C20_PresetsInRegistry ==
  \A p \in Projects :
    /\ \A role \in {"entry", "exit", "highlight"} :
         schema[p].tracks.text.animation[role].presetId
           \in Range(ALL_PRESETS[role])
    /\ schema[p].tracks.video.animation.presetId \in Range(VIDEO_ANIMATIONS)

\* three animation instructions were applied over several batches, among
\* rejected ones
C20_Witness ==
  /\ chat.written /\ chat.status = "partial_success"
  /\ schema["p1"].tracks.text.animation.entry.presetId = "fade_in"
  /\ schema["p1"].tracks.text.animation.highlight.presetId = "scale_up"
  /\ schema["p1"].tracks.video.animation.presetId = "none"

\* C21: in every stored tree reached from the tree of a new project by
\* validated and applied instructions, the duration of the entry, exit and
\* highlight text animations is strictly positive.
C21_TextAnimationDurationPositive ==
  \A p \in Projects :
    \A role \in {"entry", "exit", "highlight"} :
      schema[p].tracks.text.animation[role].duration > 0

\* the ids of the captions of a tree
CaptionIdsOf(tree) ==
  {tree.tracks.text.captions[i].id : i \in DOMAIN tree.tracks.text.captions}

\* C22: in every stored tree reached from the tree of a new project by
\* validated and applied update_highlights instructions, every highlight
\* names the id of a caption of the tree and has
\* 0 <= wordStartIndex <= wordEndIndex.
C22_HighlightsReferenceCaptions ==
  \A p \in Projects :
    \A i \in DOMAIN schema[p].tracks.text.highlights :
      LET h == schema[p].tracks.text.highlights[i] IN
      /\ h.captionId \in CaptionIdsOf(schema[p])
      /\ 0 <= h.wordStartIndex
      /\ h.wordStartIndex <= h.wordEndIndex

\* the index of the last word of each group, from the word counts of the
\* captions
RECURSIVE Closes(_, _)
Closes(captions, upto) ==
  IF captions = <<>> THEN {}
  ELSE {upto + Head(captions).word_count}
         \cup Closes(Tail(captions), upto + Head(captions).word_count)

\* the index of the first word of the group that word i is in
GroupStart(closes, i) ==
  IF \E c \in closes : c < i
  THEN 1 + CHOOSE c \in closes : c < i /\ \A d \in closes : d < i => d <= c
  ELSE 1

\* a word ends in terminal punctuation
EndsSentence(word) ==
  Len(word.text) > 0 /\ word.text[Len(word.text)] \in {".", "!", "?"}

\* C23: the group is closed after word i if and only if, counting word i,
\* the group has 5 words or more, or lasts 3000 ms or more, or the next word
\* starts 300 ms or more after word i ends, or word i ends in terminal
\* punctuation and the group has 2 words or more, or word i is the last.
C23_GroupClosedIff ==
  grouped.called =>
    LET closes == Closes(grouped.captions, 0) IN
    \A i \in 1..Len(words) :
      LET first == GroupStart(closes, i)
          count == i - first + 1
      IN i \in closes <=>
           \/ count >= 5
           \/ words[i].end - words[first].start >= 3000
           \/ i < Len(words) /\ words[i + 1].start - words[i].end >= 300
           \/ EndsSentence(words[i]) /\ count >= 2
           \/ i = Len(words)

\* the whole numbers nearest to a / b: two of them when a / b is halfway
Rounded(a, b) ==
  {n \in {a \div b, a \div b + 1} :
     \A m \in {a \div b, a \div b + 1} :
       (IF n * b >= a THEN n * b - a ELSE a - n * b)
         <= (IF m * b >= a THEN m * b - a ELSE a - m * b)}

\* a number incremented by 1 if odd
Even(n) == IF n % 2 # 0 THEN n + 1 ELSE n

\* C24: for every source width and height and each of 1080p, 720p and 480p
\* the command scales to the height of the table and to the width
\* round(height x source width / source height), each incremented by 1 if
\* odd; resolution "original" adds no size.
C24_ScaledSize ==
  command.project # "none" =>
    LET video == command.config.source.video IN
    /\ command.resolution = "original" => command.render.cmd.s = <<>>
    /\ (/\ command.resolution \in {"1080p", "720p", "480p"}
        /\ {"width", "height"} \subseteq DOMAIN video
        /\ video.height > 0)
         => \E width \in Rounded(TargetHeight(command.resolution)
                                   * video.width, video.height) :
              command.render.cmd.s =
                <<Even(width), Even(TargetHeight(command.resolution))>>

\* C25: when a render is started with burn_captions false, the tree handed
\* to the render job has no caption and no highlight, no subtitle file is
\* written and no subtitles filter is in the command; the stored tree, its
\* captions and highlights included, is as before.
C25_CaptionsSuppressed ==
  [][(command' # command /\ ~command'.burn_captions) =>
       /\ command'.config.tracks.text.captions = <<>>
       /\ command'.config.tracks.text.highlights = <<>>
       /\ command'.render.ass_content = <<>>
       /\ \A k \in DOMAIN command'.render.cmd.vf :
            command'.render.cmd.vf[k].filter # "subtitles"
       /\ schema' = schema
       /\ schema'[command'.project].tracks.text.captions = Captions
    ]_vars

\* a render of p1 was asked for without captions after a highlight was
\* stored: the job is queued, the handed tree has neither, the stored tree
\* has both
C25_Witness ==
  /\ command.project = "p1" /\ ~command.burn_captions
  /\ \E j \in JobIds : jobs[j].project = "p1" /\ jobs[j].pc = "queued"
  /\ command.config.tracks.text.captions = <<>>
  /\ command.config.tracks.text.highlights = <<>>
  /\ schema["p1"].tracks.text.captions = Captions
  /\ schema["p1"].tracks.text.highlights = <<Highlight("cap_001")>>

\* the fade filters that the fades of a tree ask for: fade in first, then
\* fade out, none for a fade that is absent
FadesOf(tree) ==
  LET animation == tree.tracks.video.animation IN
  (IF "fadeIn" \in DOMAIN animation
   THEN <<[filter |-> "fade", t |-> "in", st |-> animation.fadeIn.start,
           d |-> animation.fadeIn.duration]>>
   ELSE <<>>)
  \o (IF "fadeOut" \in DOMAIN animation
      THEN <<[filter |-> "fade", t |-> "out", st |-> animation.fadeOut.start,
              d |-> animation.fadeOut.duration]>>
      ELSE <<>>)

\* the tree with another video animation preset
WithPreset(tree, preset_id) ==
  [tree EXCEPT !.tracks.video.animation.presetId = preset_id]

\* C30: the video filter of a compiled command is the fade in of the tree,
\* if it has one, then its fade out, if it has one, and is the same for
\* every video animation presetId the tree could hold; a step that changes
\* nothing of a stored tree but that presetId changes neither its video
\* filter nor its command.
C30_FilterIgnoresPreset ==
  [][/\ command' # command =>
          /\ build_video_filter(command'.config) = FadesOf(command'.config)
          /\ SubSeq(command'.render.cmd.vf, 1,
                    Len(FadesOf(command'.config)))
               = FadesOf(command'.config)
          /\ \A x \in Range(VIDEO_ANIMATIONS) :
               build_video_filter(WithPreset(command'.config, x))
                 = build_video_filter(command'.config)
     /\ \A p \in Projects :
          (/\ schema'[p] # schema[p]
           /\ WithPreset(schema'[p],
                         schema[p].tracks.video.animation.presetId)
                = schema[p])
            => /\ build_video_filter(schema'[p])
                    = build_video_filter(schema[p])
               /\ \A size \in {<<>>, <<1280, 720>>} :
                    render_video_command(schema'[p], size)
                      = render_video_command(schema[p], size)
    ]_vars

\* the preset of p1 was set to "none" by update_video_animation and a render
\* was then asked for: the command fades in and out as before
C30_Witness ==
  /\ chat.written
  /\ schema["p1"].tracks.video.animation.presetId = "none"
  /\ command.project = "p1"
  /\ command.config.tracks.video.animation.presetId = "none"
  /\ Len(build_video_filter(command.config)) = 2
  /\ command.render.cmd.vf[1].t = "in" /\ command.render.cmd.vf[2].t = "out"

\* the number of words of the captions before caption k
RECURSIVE WordsBefore(_, _)
WordsBefore(captions, k) ==
  IF k = 1 THEN 0
  ELSE WordsBefore(captions, k - 1) + captions[k - 1].word_count

\* a number of seconds is at most another
SecondsLeq(a, b) ==
  a.s < b.s \/ (a.s = b.s /\ a.thousandths <= b.thousandths)

\* the words start no earlier than they end and than the word before
Ordered(list) ==
  /\ \A i \in DOMAIN list : list[i].start <= list[i].end
  /\ \A i \in DOMAIN list : i > 1 =>
       /\ list[i - 1].start <= list[i].start
       /\ list[i - 1].end <= list[i].end

\* C29: the captions partition the word stream: each holds between 1 and 5
\* words, caption k holds the words that follow those of the captions
\* before it, in order, and the captions hold every word; when the words are
\* ordered in time every caption starts no later than it ends and no
\* earlier than the caption before it.
C29_GroupsPartitionWords ==
  grouped.called =>
    LET captions == grouped.captions IN
    /\ \A k \in DOMAIN captions :
         LET first == WordsBefore(captions, k) + 1
             last == WordsBefore(captions, k) + captions[k].word_count
         IN /\ captions[k].word_count \in 1..5
            /\ last <= Len(words)
            /\ captions[k].text = JoinTexts(SubSeq(words, first, last))
            /\ captions[k].start = Seconds(words[first].start)
            /\ captions[k].end = Seconds(words[last].end)
    /\ WordsBefore(captions, Len(captions) + 1) = Len(words)
    /\ Ordered(words) =>
         /\ \A k \in DOMAIN captions :
              SecondsLeq(captions[k].start, captions[k].end)
         /\ \A k \in DOMAIN captions : k > 1 =>
              SecondsLeq(captions[k - 1].start, captions[k].start)

\* six plain words were grouped: five in the first caption, one in the
\* second
C29_Witness ==
  /\ grouped.called
  /\ Len(words) = 6 /\ \A i \in 1..6 : words[i].text = <<"h", "i">>
  /\ Len(grouped.captions) = 2
  /\ grouped.captions[1].word_count = 5
  /\ grouped.captions[2].word_count = 1
  /\ grouped.captions[2].start = Seconds(1000)

\* C26: a start, a progress update, a cancel, a failure or the cleanup of a
\* render of one project id changes neither the status nor, in any server
\* process, the progress entry or the process entry of another project id.
C26_ProjectsIndependent ==
  [][\A p \in Projects : StepOf(p) =>
       \A q \in Projects \ {p} :
         /\ status'[q] = status[q]
         /\ \A w \in Workers :
              /\ render_progress'[w][q] = render_progress[w][q]
              /\ render_processes'[w][q] = render_processes[w][q]
    ]_vars

\* the render of p1 was cancelled while its task runs in one server
\* process; the task of p2 has since encoded in the other and uploads: p2
\* is "rendering" and has its entry, at 80
C26_Witness ==
  /\ cancelled["p1"] /\ status["p1"] = "ready"
  /\ status["p2"] = "rendering"
  /\ \E j \in JobIds : jobs[j].project = "p2" /\ jobs[j].pc = "uploading"
  /\ \E w \in Workers : \E v \in Workers \ {w} :
       /\ render_progress[w]["p2"] = Entry(80, "rendering")
       /\ render_progress[v]["p1"] # NoEntry
       /\ render_progress[w]["p1"] = NoEntry


\* the instructions of a batch that a choice of verdicts marks with v, in
\* batch order
RECURSIVE Pick(_, _, _)
Pick(edits, mask, v) ==
  IF edits = <<>> THEN <<>>
  ELSE LET front == Pick(SubSeq(edits, 1, Len(edits) - 1), mask, v)
       IN  IF mask[Len(edits)] = v THEN Append(front, edits[Len(edits)])
           ELSE front

\* a tree with the instructions of a list applied to it in order
RECURSIVE ApplyAll(_, _)
ApplyAll(cfg, edits) ==
  IF edits = <<>> THEN cfg
  ELSE ApplyAll(apply_edit(cfg, Head(edits)), Tail(edits))

\* an instruction that passes the validator and that apply_edit carries out
Acceptable(cfg, e) == validate_single_edit(e).ok /\ ~Raises(cfg, e)

\* the descriptions of a list of instructions
Descriptions(edits) ==
  [i \in 1..Len(edits) |-> get_edit_description(edits[i])]

Rendering(j) ==
  /\ jobs[j] # NoJob
  /\ jobs[j].pc \in {"encoding", "uploading", "uploaded", "url_stored",
                     "except"}

\* C28: from the moment a render task sets the status "rendering" until it
\* reaches its terminal outcome the stored status of its project stays
\* "rendering" among chat edits and video replacements for the project,
\* and no second render is started for it in the meantime
C28_RenderingHeldUntilOutcome ==
  [][\A j \in JobIds :
       Rendering(j) =>
         /\ status[jobs[j].project] = "rendering"
         /\ \A k \in JobIds :
              (jobs[k] = NoJob /\ jobs'[k] # NoJob)
                => jobs'[k].project # jobs[j].project]_vars

====
